---- MODULE Spec2Model ----
(***************************************************************************)
(* State-machine model of the three programs of the repository:            *)
(*   - the per-trade contrarian engine  (trading_dev/contrarian/detectlast) *)
(*   - the batch market maker           (pump_getPrice/market_maker)        *)
(*   - the retrying RPC reader of the order watcher (fetchWithRetry)        *)
(* Each program is a process of its own, so each has its own               *)
(* specification; the variables of the other programs stay at their        *)
(* initial values.                                                         *)
(*                                                                         *)
(* Amounts are fixed-point integers in hundredths of a SOL (1 SOL = 100),  *)
(* percentages are integers in percent, times are in milliseconds.         *)
(* Floating-point rounding of the JavaScript numbers is not modelled: the  *)
(* amounts drawn are those for which the products and sums are exact.      *)
(***************************************************************************)
EXTENDS Integers, Sequences, FiniteSets, TLC

VARIABLES
    \* ---- detectlast.ts ----
    tradeStates,   \* tokenAddress -> TradeState or NoState
    clock,         \* Date.now(), in ms since the engine started
    handlers,      \* the handleTradeDetection invocations in progress
    orders,        \* the calls made to the execution gateway (buy/sell)
    detections,    \* number of handleTradeDetection invocations started so far
    \* ---- market_maker.ts ----
    fileExists,        \* fs.existsSync(`${tokenAddress}_trades.csv`)
    ledger,            \* the records of the trade file, in file order
    arrivals,          \* number of records appended to the file since the start
    buyPercentage,     \* percent, as entered at the prompt
    sellPercentage,
    isProcessingTrade, \* the execution-in-flight flag
    processedBatches,  \* the Set of batch ids, in insertion order
    watchers,          \* the watchTradeFile invocations suspended in executeTrade
    sdkOrders,         \* the orders handed to sdk.buy / sdk.sell
    markLog,           \* history: the windows marked as processed, in order
    lastStep,          \* history: which step of the market maker was taken last
    \* ---- order watcher: fetchWithRetry ----
    rpcScript,         \* what the operation does on its 1st, 2nd, ... invocation
    fetchPc,           \* where fetchWithRetry is
    fetchI,            \* the loop variable i
    fetchCalls,        \* history: number of invocations of the operation
    fetchEvents,       \* history: the invocations and the backoff sleeps, in order
    fetchResult,       \* the value returned, or the error thrown
    fetchContext,      \* the context string fetchWithRetry was called with
    \* ---- detectlast.ts: detectLatestTrade called on its own ----
    detectCall,        \* the arguments of the call and, once it returned, its result
    \* ---- order watcher (it writes the trade file: ledger, fileExists) ----
    chain,               \* the token's confirmed transactions, oldest first
    processedSignatures, \* the Set of signatures
    pendingTrades,       \* trades found by the monitor, not yet written
    lastProcessedTime,   \* block time (s) of the last processed transaction
    isInitialFetch,      \* TRUE until getInitialTrades has run through
    cycles,              \* getInitialTrades (0) and the monitorTrades invocations (1, 2, ...)
    timer,               \* the interval timer of start(), with the ms until it fires
    classified,          \* history: signatures fetched and classified without an error
    notFound,            \* history: the fetches that returned null, with their invocation
    wstep,               \* history: what the last step of the watcher was
    \* ---- order watcher: processTransaction called on its own ----
    processedCount,      \* the debug counters of lines 35-38
    skippedByPump,
    skippedByToken,
    skippedByAmount,
    tradesReturned,      \* history: number of calls that returned a trade record
    processCall          \* the last call: its transaction and what it returned

contrarianVars == <<tradeStates, clock, handlers, orders, detections>>

makerVars == <<fileExists, ledger, arrivals, buyPercentage, sellPercentage, isProcessingTrade,
               processedBatches, watchers, sdkOrders, markLog, lastStep>>

retryVars == <<rpcScript, fetchPc, fetchI, fetchCalls, fetchEvents, fetchResult, fetchContext>>

detectVars == <<detectCall>>

\* the market maker's own state, without the trade file
makerStateVars == <<arrivals, buyPercentage, sellPercentage, isProcessingTrade,
                    processedBatches, watchers, sdkOrders, markLog, lastStep>>

watcherVars == <<chain, processedSignatures, pendingTrades, lastProcessedTime, isInitialFetch,
                 cycles, timer, classified, notFound, wstep>>

processVars == <<processedCount, skippedByPump, skippedByToken, skippedByAmount,
                 tradesReturned, processCall>>

vars == <<tradeStates, clock, handlers, orders, detections,
          fileExists, ledger, arrivals, buyPercentage, sellPercentage, isProcessingTrade,
          processedBatches, watchers, sdkOrders, markLog, lastStep,
          rpcScript, fetchPc, fetchI, fetchCalls, fetchEvents, fetchResult, fetchContext,
          detectCall,
          chain, processedSignatures, pendingTrades, lastProcessedTime, isInitialFetch,
          cycles, timer, classified, notFound, wstep,
          processedCount, skippedByPump, skippedByToken, skippedByAmount,
          tradesReturned, processCall>>

Abs(x) == IF x < 0 THEN -x ELSE x

(***************************************************************************)
(*                     detectlast.ts: the pool-delta classifier            *)
(***************************************************************************)
OPPOSITE_TRADE_PERCENTAGE == 10     \* percent: 0.1 in the source
WSOL_ADDRESS == "WSOL"
RAYDIUM_AUTHORITY == "RAYDIUM"
COOLDOWN_MS == 1000

\* bounds of the model
MaxTicks == 3            \* the clock stops advancing after this many ticks
MaxDetections == 3       \* handleTradeDetection invocations per behaviour
TickMs == COOLDOWN_MS \div 2      \* granularity of the clock: 500 ms
MaxClock == MaxTicks * TickMs

Tokens == {"TOKEN_A", "TOKEN_B"}
FirstToken == "TOKEN_A"
HandlerIds == {1, 2}

NoState == [present |-> FALSE]

TradeState(dir, size, ts) ==
    [present |-> TRUE, lastTradeDirection |-> dir,
     lastTradeSizeInSOL |-> size, lastTradeTimestamp |-> ts]

Balance(owner, mint, amount) == [owner |-> owner, mint |-> mint, uiAmount |-> amount]

\* mutant: the owner of an entry is not looked at
RECURSIVE ScanBalances_AnyOwner(_, _, _, _, _)
ScanBalances_AnyOwner(balances, i, poolSOL, poolToken, targetTokenMint) ==
    IF i > Len(balances) \/ (poolSOL # 0 /\ poolToken # 0)
    THEN [poolSOL |-> poolSOL, poolToken |-> poolToken]
    ELSE LET account == balances[i]
             sol == IF account.mint = WSOL_ADDRESS THEN account.uiAmount ELSE poolSOL
             tok == IF account.mint = targetTokenMint THEN account.uiAmount ELSE poolToken
         IN ScanBalances_AnyOwner(balances, i + 1, sol, tok, targetTokenMint)

\* One pass of the for-loops of detectLatestTrade over a balance list, from
\* entry i on, with the amounts found so far.
RECURSIVE ScanBalances(_, _, _, _, _)
ScanBalances(balances, i, poolSOL, poolToken, targetTokenMint) ==
    IF i > Len(balances) \/ (poolSOL # 0 /\ poolToken # 0)
    THEN [poolSOL |-> poolSOL, poolToken |-> poolToken]
    ELSE LET account == balances[i]
             sol == IF account.owner = RAYDIUM_AUTHORITY /\ account.mint = WSOL_ADDRESS
                    THEN account.uiAmount ELSE poolSOL
             tok == IF account.owner = RAYDIUM_AUTHORITY /\ account.mint = targetTokenMint
                    THEN account.uiAmount ELSE poolToken
         IN ScanBalances(balances, i + 1, sol, tok, targetTokenMint)

detectLatestTrade(data, targetTokenMint) ==
    LET pre  == ScanBalances(data.preTokenBalances, 1, 0, 0, targetTokenMint)
        post == ScanBalances(data.postTokenBalances, 1, 0, 0, targetTokenMint)
    IN IF post.poolSOL > pre.poolSOL
       THEN [side |-> "buy", swappedSOLAmount |-> post.poolSOL - pre.poolSOL]
       ELSE IF post.poolSOL < pre.poolSOL
       THEN [side |-> "sell", swappedSOLAmount |-> pre.poolSOL - post.poolSOL]
       ELSE [side |-> "null", swappedSOLAmount |-> 0]

\* The transactions the stream delivers: the pool's WSOL and token balances
\* before and after, for the token the handler is called with.
PoolTx(mint, preSOL, postSOL, preTok, postTok) ==
    [preTokenBalances  |-> << Balance(RAYDIUM_AUTHORITY, WSOL_ADDRESS, preSOL),
                              Balance(RAYDIUM_AUTHORITY, mint, preTok) >>,
     postTokenBalances |-> << Balance(RAYDIUM_AUTHORITY, WSOL_ADDRESS, postSOL),
                              Balance(RAYDIUM_AUTHORITY, mint, postTok) >>]

\* (preSOL, postSOL) pairs, in hundredths of a SOL: a buy of 10 SOL, a sell
\* of 1 SOL and a transaction that leaves the pool alone.
PoolDeltas == { <<10000, 11000>>, <<10000, 9900>>, <<10000, 10000>> }

DataFor(mint) == { PoolTx(mint, d[1], d[2], 100000, 99000) : d \in PoolDeltas }

(***************************************************************************)
(*                     detectlast.ts: handleTradeDetection                 *)
(***************************************************************************)
IdleHandler == [pc |-> "idle"]

\* swappedSOLAmount * OPPOSITE_TRADE_PERCENTAGE
OppositeSize(swappedSOLAmount) == (swappedSOLAmount * OPPOSITE_TRADE_PERCENTAGE) \div 100

\* the gateway function line 63-67 calls for a detected direction
GatewaySide(tradeDirection) == IF tradeDirection = "buy" THEN "sell" ELSE "buy"

\* mutant: the cooldown compared with >= instead of >
CooldownPassed_AtLeast(lastState, currentTimestamp) ==
    IF ~lastState.present THEN TRUE
    ELSE currentTimestamp - lastState.lastTradeTimestamp >= COOLDOWN_MS

\* line 60: the guard of the contrarian action
CooldownPassed(lastState, currentTimestamp) ==
    IF ~lastState.present THEN TRUE
    ELSE currentTimestamp - lastState.lastTradeTimestamp > COOLDOWN_MS

ShouldTrade(h) ==
    IF h.tradeDirection = "null" THEN FALSE
    ELSE CooldownPassed(h.lastState, h.currentTimestamp)

\* lines 69-73: the state written after the gateway call returned
NewTradeState(h) ==
    TradeState(h.tradeDirection, OppositeSize(h.swappedSOLAmount), h.currentTimestamp)

ContrarianStart ==
    /\ tradeStates = [t \in Tokens |-> NoState]
    /\ clock = 0
    /\ handlers = [i \in HandlerIds |-> IdleHandler]
    /\ orders = {}
    /\ detections = 0

\* time passes.  Only differences of clock readings are observed, so the clock
\* is followed from the first detection to the last.
Tick ==
    /\ clock + TickMs <= MaxClock
    /\ 0 < detections /\ detections < MaxDetections
    /\ clock' = clock + TickMs
    /\ UNCHANGED <<tradeStates, handlers, orders, detections>>
    /\ UNCHANGED <<makerVars, retryVars, detectVars, watcherVars, processVars>>

\* lines 53-57: the handler reads the clock and the token's state, classifies
\* the transaction and yields at the await.
StartDetection(i, tokenAddress, data) ==
    /\ handlers[i].pc = "idle"
    /\ \A j \in HandlerIds : j < i => handlers[j].pc # "idle"   \* slots are interchangeable
    /\ detections < MaxDetections
    /\ detections = 0 => tokenAddress = FirstToken               \* so are the tokens
    /\ LET tradeResult == detectLatestTrade(data, tokenAddress)
       IN handlers' = [handlers EXCEPT ![i] =
              [pc |-> "detected",
               tokenAddress |-> tokenAddress,
               currentTimestamp |-> clock,
               lastState |-> tradeStates[tokenAddress],
               tradeDirection |-> tradeResult.side,
               swappedSOLAmount |-> tradeResult.swappedSOLAmount,
               gatewayCalls |-> 0]]
    /\ detections' = detections + 1
    /\ UNCHANGED <<tradeStates, clock, orders>>
    /\ UNCHANGED <<makerVars, retryVars, detectVars, watcherVars, processVars>>

\* lines 60-67, guard true: the gateway is called with the opposite side.
PlaceOrder(i) ==
    LET h == handlers[i] IN
    /\ h.pc = "detected"
    /\ ShouldTrade(h)
    /\ orders' = orders \cup
           {[tokenAddress |-> h.tokenAddress,
             side |-> GatewaySide(h.tradeDirection),
             size |-> OppositeSize(h.swappedSOLAmount),
             slippage |-> 1,
             at |-> h.currentTimestamp]}
    /\ handlers' = [handlers EXCEPT ![i].pc = "gateway", ![i].gatewayCalls = @ + 1]
    /\ UNCHANGED <<tradeStates, clock, detections>>
    /\ UNCHANGED <<makerVars, retryVars, detectVars, watcherVars, processVars>>

\* line 60, guard false: the handler returns without doing anything.
Suppress(i) ==
    LET h == handlers[i] IN
    /\ h.pc = "detected"
    /\ ~ShouldTrade(h)
    /\ handlers' = [handlers EXCEPT ![i].pc = "suppressed"]
    /\ UNCHANGED <<tradeStates, clock, orders, detections>>
    /\ UNCHANGED <<makerVars, retryVars, detectVars, watcherVars, processVars>>

\* lines 69-74: the gateway call returned, the state is overwritten.
GatewayReturns(i) ==
    LET h == handlers[i] IN
    /\ h.pc = "gateway"
    /\ tradeStates' = [tradeStates EXCEPT ![h.tokenAddress] = NewTradeState(h)]
    /\ handlers' = [handlers EXCEPT ![i].pc = "executed"]
    /\ UNCHANGED <<clock, orders, detections>>
    /\ UNCHANGED <<makerVars, retryVars, detectVars, watcherVars, processVars>>

\* mutant: the rejection is swallowed and the state is written all the same
GatewayThrows_StateWritten(i) ==
    LET h == handlers[i] IN
    /\ h.pc = "gateway"
    /\ tradeStates' = [tradeStates EXCEPT ![h.tokenAddress] = NewTradeState(h)]
    /\ handlers' = [handlers EXCEPT ![i].pc = "failed"]
    /\ UNCHANGED <<clock, orders, detections>>
    /\ UNCHANGED <<makerVars, retryVars, detectVars, watcherVars, processVars>>

\* lines 64/66: the awaited gateway call rejects; the rejection leaves
\* handleTradeDetection, which has no try/catch.
GatewayThrows(i) ==
    LET h == handlers[i] IN
    /\ h.pc = "gateway"
    /\ handlers' = [handlers EXCEPT ![i].pc = "failed"]
    /\ UNCHANGED <<tradeStates, clock, orders, detections>>
    /\ UNCHANGED <<makerVars, retryVars, detectVars, watcherVars, processVars>>

\* the promise of a finished invocation is dropped
Forget(i) ==
    /\ handlers[i].pc \in {"suppressed", "executed", "failed"}
    /\ handlers' = [handlers EXCEPT ![i] = IdleHandler]
    /\ UNCHANGED <<tradeStates, clock, orders, detections>>
    /\ UNCHANGED <<makerVars, retryVars, detectVars, watcherVars, processVars>>

(***************************************************************************)
(*            detectlast.ts: detectLatestTrade called on its own           *)
(***************************************************************************)
TEST_TOKEN_ADDRESS == "TEST_TOKEN_ADDRESS"
USER_WALLET == "USER"

\* the pool's WSOL balance, in hundredths of a SOL (100 SOL is 10000)
NativeAmounts == {0, 9900, 10000, 10100}

\* the pool's balance of the target token
TokenAmounts == {99000, 100000}

\* How a balance list is laid out: the pool's two entries in either order,
\* alone or with the trader's own WSOL and token accounts among them.
Layouts == {"native-token", "token-native", "native-user-token-user", "user-token-native"}

BalanceList(layout, mint, native, token, userNative, userToken) ==
    LET n  == Balance(RAYDIUM_AUTHORITY, WSOL_ADDRESS, native)
        t  == Balance(RAYDIUM_AUTHORITY, mint, token)
        un == Balance(USER_WALLET, WSOL_ADDRESS, userNative)
        ut == Balance(USER_WALLET, mint, userToken)
    IN CASE layout = "native-token" -> << n, t >>
         [] layout = "token-native" -> << t, n >>
         [] layout = "native-user-token-user" -> << n, un, t, ut >>
         [] layout = "user-token-native" -> << un, ut, t, n >>

DetectIdle == detectCall = [pc |-> "idle"]

\* detectLatestTrade is called, as test-detect-trade.ts calls it
DetectInit ==
    \E layout \in Layouts, preNative, postNative \in NativeAmounts, postToken \in TokenAmounts :
        detectCall =
            [pc |-> "called",
             targetTokenMint |-> TEST_TOKEN_ADDRESS,
             prePoolNative |-> preNative,
             postPoolNative |-> postNative,
             data |-> [preTokenBalances |->
                           BalanceList(layout, TEST_TOKEN_ADDRESS, preNative, 100000, 500, 0),
                       postTokenBalances |->
                           BalanceList(layout, TEST_TOKEN_ADDRESS, postNative, postToken, 400, 1000)]]

\* lines 19-50
DetectReturns ==
    /\ detectCall.pc = "called"
    /\ detectCall' = [pc |-> "returned",
                      targetTokenMint |-> detectCall.targetTokenMint,
                      prePoolNative |-> detectCall.prePoolNative,
                      postPoolNative |-> detectCall.postPoolNative,
                      data |-> detectCall.data,
                      result |-> detectLatestTrade(detectCall.data, detectCall.targetTokenMint)]
    /\ UNCHANGED <<contrarianVars, makerVars, retryVars, watcherVars, processVars>>


\* ---- balance lists in which an owner and mint occur more than once ----
\* (the Raydium authority owns the vaults of every pool, so a transaction
\* that touches two pools lists two WSOL entries with that owner)
MaxListLen == 3

DupNativeAmounts == {10000, 10100}
DupTokenAmounts == {0, 100000}

DupEntries ==
    { Balance(RAYDIUM_AUTHORITY, WSOL_ADDRESS, a) : a \in DupNativeAmounts }
        \cup { Balance(RAYDIUM_AUTHORITY, TEST_TOKEN_ADDRESS, t) : t \in DupTokenAmounts }

DupLists == UNION { [1..n -> DupEntries] : n \in 1..MaxListLen }

\* the amount of the first entry of a balance list with the given owner and
\* mint; 0 when the list has none
RECURSIVE FirstAmount(_, _, _, _)
FirstAmount(balances, i, owner, mint) ==
    IF i > Len(balances) THEN 0
    ELSE IF balances[i].owner = owner /\ balances[i].mint = mint
         THEN balances[i].uiAmount
         ELSE FirstAmount(balances, i + 1, owner, mint)

\* detectLatestTrade is called with such lists
DetectDupInit ==
    \E pre, post \in DupLists :
        detectCall =
            [pc |-> "called",
             targetTokenMint |-> TEST_TOKEN_ADDRESS,
             prePoolNative |-> FirstAmount(pre, 1, RAYDIUM_AUTHORITY, WSOL_ADDRESS),
             postPoolNative |-> FirstAmount(post, 1, RAYDIUM_AUTHORITY, WSOL_ADDRESS),
             data |-> [preTokenBalances |-> pre, postTokenBalances |-> post]]
(***************************************************************************)
(*                     market_maker.ts: the batch aggregator               *)
(***************************************************************************)
BATCH_SIZE == 5                    \* the window: trades.slice(-5)
MAX_PROCESSED_BATCHES == 100       \* processedBatches.size > 100
KEPT_PROCESSED_BATCHES == 50       \* batchArray.slice(-50)
SIGNATURE_PREFIX == 8              \* txHash.slice(0,8)
LAMPORTS_PER_SOL == 1000000000

\* bounds of the model
MaxArrivals == 3         \* records appended to the trade file per behaviour
MaxSteadyArrivals == 106 \* the same, for the long run in which the set fills up

WatcherIds == {1, 2}

Min(a, b) == IF a < b THEN a ELSE b

\* String.prototype.slice(from, to) on a string held as a sequence of characters
Slice(str, from, to) == SubSeq(str, from + 1, Min(to, Len(str)))

\* Array.prototype.slice(-n)
LastN(arr, n) == IF Len(arr) <= n THEN arr ELSE SubSeq(arr, Len(arr) - n + 1, Len(arr))

Range(seq) == { seq[k] : k \in 1..Len(seq) }

\* A transaction signature: 8 leading characters and the rest (one character
\* here, 80 in a real signature).
Signature(prefix, rest) == << prefix, prefix, prefix, prefix, prefix, prefix, prefix, prefix, rest >>

\* The records the order watcher appends to the file.  dt is the number of
\* seconds between the record before and this one; the signature ends with
\* the record's position in the file, so no two records share a signature.
Arrivals ==
    { [type |-> "BUY",  solAmount |-> 100, prefix |-> 1, dt |-> 0],
      [type |-> "SELL", solAmount |-> 50,  prefix |-> 1, dt |-> 0],
      [type |-> "BUY",  solAmount |-> 50,  prefix |-> 2, dt |-> 1],
      [type |-> "SELL", solAmount |-> 200, prefix |-> 2, dt |-> 1] }

\* One record of the file.
TradeRecord(timestamp, type, solAmount, txHash) ==
    [timestamp |-> timestamp, type |-> type, solAmount |-> solAmount, txHash |-> txHash]

\* The trade file when the market maker starts: none yet, or the three
\* trades an initial collection of the order watcher found.
InitialLedgers ==
    { << >>,
      << TradeRecord(0, "BUY", 100, Signature(1, 1)),
         TradeRecord(0, "SELL", 50, Signature(1, 2)),
         TradeRecord(1, "BUY", 50, Signature(2, 3)) >> }

\* the percentages entered at the prompt: (buy, sell)
PercentagePairs == { <<10, 20>>, <<20, 5>> }

\* mutant: the whole signatures go into the identity
BatchIdOf_WholeSignature(lastFiveTrades) ==
    << lastFiveTrades[1].timestamp,
       lastFiveTrades[5].timestamp,
       lastFiveTrades[1].txHash,
       lastFiveTrades[5].txHash >>

\* line 110
BatchIdOf(lastFiveTrades) ==
    << lastFiveTrades[1].timestamp,
       lastFiveTrades[5].timestamp,
       Slice(lastFiveTrades[1].txHash, 0, SIGNATURE_PREFIX),
       Slice(lastFiveTrades[5].txHash, 0, SIGNATURE_PREFIX) >>

\* lines 118-121
RECURSIVE NetVolumeFrom(_, _)
NetVolumeFrom(trades, k) ==
    IF k > Len(trades) THEN 0
    ELSE (IF trades[k].type = "SELL" THEN -trades[k].solAmount ELSE trades[k].solAmount)
         + NetVolumeFrom(trades, k + 1)

NetVolume(lastFiveTrades) == NetVolumeFrom(lastFiveTrades, 1)

\* mutant: the trim keeps the oldest entries
AddBatch_KeepsOldest(batches, batchId) ==
    LET added == IF batchId \in Range(batches) THEN batches ELSE Append(batches, batchId)
    IN IF Len(added) > MAX_PROCESSED_BATCHES
       THEN SubSeq(added, 1, KEPT_PROCESSED_BATCHES)
       ELSE added

\* lines 142-148: Set.add, then the trim to the most recent entries
AddBatch(batches, batchId) ==
    LET added == IF batchId \in Range(batches) THEN batches ELSE Append(batches, batchId)
    IN IF Len(added) > MAX_PROCESSED_BATCHES
       THEN LastN(added, KEPT_PROCESSED_BATCHES)
       ELSE added

\* lines 176-178, in lamports
Percentage(isBuy) == IF isBuy THEN buyPercentage ELSE sellPercentage

TradeLamports(isBuy, amount) ==
    Abs(amount * Percentage(isBuy)) * (LAMPORTS_PER_SOL \div 10000)

\* mutant: executeTrade without its guard
ExecutionInFlight_Unchecked == FALSE

\* line 156: the guard of executeTrade
ExecutionInFlight == isProcessingTrade

IdleWatcher == [pc |-> "idle"]

MakerStart ==
    /\ arrivals = 0
    /\ isProcessingTrade = FALSE
    /\ processedBatches = << >>
    /\ watchers = [w \in WatcherIds |-> IdleWatcher]
    /\ sdkOrders = {}
    /\ markLog = << >>
    /\ lastStep = "start"

\* lines 64-81: the percentages are read once, before the timer starts
MakerInit ==
    /\ MakerStart
    /\ ledger \in InitialLedgers
    /\ fileExists = (ledger # << >>)
    /\ \E pair \in PercentagePairs :
          /\ buyPercentage = pair[1]
          /\ sellPercentage = pair[2]

\* The order watcher (another process) writes one more record to the file.
LedgerAppend(a) ==
    /\ arrivals < MaxArrivals
    /\ arrivals' = arrivals + 1
    /\ LET n == Len(ledger) + 1
           ts == IF n = 1 THEN 0 ELSE ledger[n - 1].timestamp + a.dt
       IN ledger' = Append(ledger,
              TradeRecord(ts, a.type, a.solAmount, Signature(a.prefix, n)))
    /\ fileExists' = TRUE
    /\ lastStep' = "append"
    /\ UNCHANGED <<buyPercentage, sellPercentage, isProcessingTrade, processedBatches,
                   watchers, sdkOrders, markLog>>
    /\ UNCHANGED <<contrarianVars, retryVars, detectVars, watcherVars, processVars>>

\* The order watcher appends the next record of a fixed stream of trades, one
\* second after the record before, once the market maker has dealt with the
\* window the file ends with.
SteadyStream ==
    << [type |-> "BUY",  solAmount |-> 100, prefix |-> 1, dt |-> 1],
       [type |-> "SELL", solAmount |-> 50,  prefix |-> 1, dt |-> 1],
       [type |-> "BUY",  solAmount |-> 50,  prefix |-> 2, dt |-> 1],
       [type |-> "SELL", solAmount |-> 200, prefix |-> 2, dt |-> 1],
       [type |-> "BUY",  solAmount |-> 100, prefix |-> 1, dt |-> 1],
       [type |-> "BUY",  solAmount |-> 100, prefix |-> 2, dt |-> 1] >>

WindowDealtWith ==
    \/ Len(ledger) < BATCH_SIZE
    \/ /\ Len(ledger) >= BATCH_SIZE
       /\ BatchIdOf(LastN(ledger, BATCH_SIZE)) \in Range(processedBatches)

LedgerAppendSteady ==
    /\ arrivals < MaxSteadyArrivals
    /\ WindowDealtWith
    /\ arrivals' = arrivals + 1
    /\ LET n == Len(ledger) + 1
           a == SteadyStream[(n % Len(SteadyStream)) + 1]
           ts == IF n = 1 THEN 0 ELSE ledger[n - 1].timestamp + a.dt
       IN ledger' = Append(ledger,
              TradeRecord(ts, a.type, a.solAmount, Signature(a.prefix, n)))
    /\ fileExists' = TRUE
    /\ lastStep' = "append"
    /\ UNCHANGED <<buyPercentage, sellPercentage, isProcessingTrade, processedBatches,
                   watchers, sdkOrders, markLog>>
    /\ UNCHANGED <<contrarianVars, retryVars, detectVars, watcherVars, processVars>>

\* lines 141-148, with the history of what was marked
MarkProcessed(w) ==
    /\ processedBatches' = AddBatch(processedBatches, w.batchId)
    /\ markLog' = Append(markLog, w.window)

lastFiveTrades == LastN(ledger, BATCH_SIZE)

\* lines 85-88: no file
PollNoFile ==
    /\ ~fileExists
    /\ lastStep' = "nofile"
    /\ UNCHANGED <<fileExists, ledger, arrivals, buyPercentage, sellPercentage, isProcessingTrade,
                   processedBatches, watchers, sdkOrders, markLog>>
    /\ UNCHANGED <<contrarianVars, retryVars, detectVars, watcherVars, processVars>>

\* mutant: a short window is given an identity and marked
PollTooFew_Marks ==
    /\ fileExists
    /\ Len(lastFiveTrades) < BATCH_SIZE
    /\ Len(lastFiveTrades) > 0
    /\ processedBatches' = Append(processedBatches,
           << lastFiveTrades[1].timestamp, lastFiveTrades[Len(lastFiveTrades)].timestamp >>)
    /\ lastStep' = "toofew"
    /\ UNCHANGED <<fileExists, ledger, arrivals, buyPercentage, sellPercentage,
                   isProcessingTrade, watchers, sdkOrders, markLog>>
    /\ UNCHANGED <<contrarianVars, retryVars, detectVars, watcherVars, processVars>>

\* lines 103-107: fewer than 5 trades
PollTooFew ==
    /\ fileExists
    /\ Len(lastFiveTrades) < BATCH_SIZE
    /\ lastStep' = "toofew"
    /\ UNCHANGED <<fileExists, ledger, arrivals, buyPercentage, sellPercentage, isProcessingTrade,
                   processedBatches, watchers, sdkOrders, markLog>>
    /\ UNCHANGED <<contrarianVars, retryVars, detectVars, watcherVars, processVars>>

\* what every poll that gets to line 110 has established
Fires ==
    /\ fileExists
    /\ Len(lastFiveTrades) >= BATCH_SIZE

\* lines 113-115: the batch id is in the set
PollSeen ==
    /\ Fires
    /\ BatchIdOf(lastFiveTrades) \in Range(processedBatches)
    /\ lastStep' = "seen"
    /\ UNCHANGED <<fileExists, ledger, arrivals, buyPercentage, sellPercentage, isProcessingTrade,
                   processedBatches, watchers, sdkOrders, markLog>>
    /\ UNCHANGED <<contrarianVars, retryVars, detectVars, watcherVars, processVars>>

\* mutant: the batch is marked only when a trade was executed
PollZero_Unmarked ==
    /\ Fires
    /\ BatchIdOf(lastFiveTrades) \notin Range(processedBatches)
    /\ NetVolume(lastFiveTrades) = 0
    /\ lastStep' = "zero"
    /\ UNCHANGED <<fileExists, ledger, arrivals, buyPercentage, sellPercentage,
                   isProcessingTrade, processedBatches, watchers, sdkOrders, markLog>>
    /\ UNCHANGED <<contrarianVars, retryVars, detectVars, watcherVars, processVars>>

\* lines 117-148 with netVolume = 0: nothing is awaited, the batch is marked
PollZero ==
    /\ Fires
    /\ BatchIdOf(lastFiveTrades) \notin Range(processedBatches)
    /\ NetVolume(lastFiveTrades) = 0
    /\ MarkProcessed([batchId |-> BatchIdOf(lastFiveTrades), window |-> lastFiveTrades])
    /\ lastStep' = "zero"
    /\ UNCHANGED <<fileExists, ledger, arrivals, buyPercentage, sellPercentage, isProcessingTrade,
                   watchers, sdkOrders>>
    /\ UNCHANGED <<contrarianVars, retryVars, detectVars, watcherVars, processVars>>

\* mutant: the trade follows the net pressure
ExecuteTradeCall_Follows(trades) ==
    LET netVolume == NetVolume(trades)
    IN IF netVolume > 0
       THEN [isBuy |-> TRUE, amount |-> netVolume]
       ELSE [isBuy |-> FALSE, amount |-> Abs(netVolume)]

\* lines 131-138: the arguments of the executeTrade call
ExecuteTradeCall(trades) ==
    LET netVolume == NetVolume(trades)
    IN IF netVolume > 0
       THEN [isBuy |-> FALSE, amount |-> netVolume]
       ELSE [isBuy |-> TRUE, amount |-> Abs(netVolume)]

\* lines 131-148 and 156: executeTrade returns at its guard; the awaited
\* promise is already resolved, so the batch is marked before anything else
\* of the process runs.
PollDropped ==
    /\ Fires
    /\ BatchIdOf(lastFiveTrades) \notin Range(processedBatches)
    /\ NetVolume(lastFiveTrades) # 0
    /\ ExecutionInFlight
    /\ MarkProcessed([batchId |-> BatchIdOf(lastFiveTrades), window |-> lastFiveTrades])
    /\ lastStep' = "dropped"
    /\ UNCHANGED <<fileExists, ledger, arrivals, buyPercentage, sellPercentage, isProcessingTrade,
                   watchers, sdkOrders>>
    /\ UNCHANGED <<contrarianVars, retryVars, detectVars, watcherVars, processVars>>

\* lines 131-138 and 156-169: executeTrade sets the flag and asks the SDK for
\* the bonding curve account; the invocation is suspended there.
PollExecutes(i) ==
    /\ Fires
    /\ BatchIdOf(lastFiveTrades) \notin Range(processedBatches)
    /\ NetVolume(lastFiveTrades) # 0
    /\ ~ExecutionInFlight
    /\ watchers[i].pc = "idle"
    /\ \A j \in WatcherIds : j < i => watchers[j].pc # "idle"
    /\ isProcessingTrade' = TRUE
    /\ LET call == ExecuteTradeCall(lastFiveTrades)
       IN watchers' = [watchers EXCEPT ![i] =
              [pc |-> "curve",
               batchId |-> BatchIdOf(lastFiveTrades),
               window |-> lastFiveTrades,
               isBuy |-> call.isBuy,
               amount |-> call.amount]]
    /\ lastStep' = "executes"
    /\ UNCHANGED <<fileExists, ledger, arrivals, buyPercentage, sellPercentage,
                   processedBatches, sdkOrders, markLog>>
    /\ UNCHANGED <<contrarianVars, retryVars, detectVars, watcherVars, processVars>>

\* mutant: the early return leaves the flag set
CurveUnavailable_KeepsFlag(i) ==
    /\ watchers[i].pc = "curve"
    /\ MarkProcessed(watchers[i])
    /\ watchers' = [watchers EXCEPT ![i] = IdleWatcher]
    /\ lastStep' = "nocurve"
    /\ UNCHANGED <<fileExists, ledger, arrivals, buyPercentage, sellPercentage, sdkOrders,
                   isProcessingTrade>>
    /\ UNCHANGED <<contrarianVars, retryVars, detectVars, watcherVars, processVars>>

\* lines 169-173 / 205-209: no bonding curve account, or the query throws:
\* the flag is released and watchTradeFile marks the batch.
CurveUnavailable(i) ==
    /\ watchers[i].pc = "curve"
    /\ isProcessingTrade' = FALSE
    /\ MarkProcessed(watchers[i])
    /\ watchers' = [watchers EXCEPT ![i] = IdleWatcher]
    /\ lastStep' = "nocurve"
    /\ UNCHANGED <<fileExists, ledger, arrivals, buyPercentage, sellPercentage, sdkOrders>>
    /\ UNCHANGED <<contrarianVars, retryVars, detectVars, watcherVars, processVars>>

\* lines 175-201: the order is handed to sdk.buy or sdk.sell
SendOrder(i) ==
    LET w == watchers[i] IN
    /\ w.pc = "curve"
    /\ sdkOrders' = sdkOrders \cup
          {[tradeType |-> IF w.isBuy THEN "BUY" ELSE "SELL",
            lamports |-> TradeLamports(w.isBuy, w.amount),
            window |-> w.window]}
    /\ watchers' = [watchers EXCEPT ![i].pc = "order"]
    /\ lastStep' = "order"
    /\ UNCHANGED <<fileExists, ledger, arrivals, buyPercentage, sellPercentage, isProcessingTrade,
                   processedBatches, markLog>>
    /\ UNCHANGED <<contrarianVars, retryVars, detectVars, watcherVars, processVars>>

\* lines 193/202 or 205-206, then 207-209 and 141-148: the order resolved or
\* threw; either way the flag is released and the batch is marked.
OrderSettles(i) ==
    /\ watchers[i].pc = "order"
    /\ isProcessingTrade' = FALSE
    /\ MarkProcessed(watchers[i])
    /\ watchers' = [watchers EXCEPT ![i] = IdleWatcher]
    /\ lastStep' = "settled"
    /\ UNCHANGED <<fileExists, ledger, arrivals, buyPercentage, sellPercentage, sdkOrders>>
    /\ UNCHANGED <<contrarianVars, retryVars, detectVars, watcherVars, processVars>>

(***************************************************************************)
(*                     order watcher: fetchWithRetry                       *)
(***************************************************************************)
MAX_RETRIES == 5
BASE_DELAY == 2000       \* ms

\* What one invocation of the operation does: it resolves with a value, or it
\* rejects with an error whose message contains '429', or with another error.
Values == {"value_a", "value_b"}
Outcomes == Values \cup {"rateLimited", "otherError"}

\* line 153: rpcError.message?.includes('429')
IsRateLimit(outcome) == outcome = "rateLimited"

\* mutant: the delay grows linearly
BackoffDelay_Linear(retryCount) == BASE_DELAY * (retryCount + 1)

\* line 142: BASE_DELAY * Math.pow(2, retryCount)
BackoffDelay(retryCount) == BASE_DELAY * (2 ^ retryCount)

RetryStart ==
    /\ rpcScript = << >>
    /\ fetchPc = "idle"
    /\ fetchI = 0
    /\ fetchCalls = 0
    /\ fetchEvents = << >>
    /\ fetchResult = "none"
    /\ fetchContext = "none"

\* the context strings of the callers (lines 285, 303, 362, 386)
Contexts == {"fetching signatures", "fetching transaction"}

\* line 161: new Error(`Failed after ${MAX_RETRIES} retries while ${context}`)
ExhaustedRetries(context) == [failedAfter |-> MAX_RETRIES, context |-> context]

\* mutant: the loop gives up one pass early
LoopContinues_OneLess(i) == i < MAX_RETRIES - 1

\* line 148: i < MAX_RETRIES
LoopContinues(i) == i < MAX_RETRIES

\* fetchWithRetry is called with an operation; the operation's behaviour on
\* its successive invocations is any sequence of outcomes.
RetryInit ==
    /\ rpcScript \in [1..MAX_RETRIES -> Outcomes]
    /\ fetchPc = "loop"
    /\ fetchI = 0
    /\ fetchCalls = 0
    /\ fetchEvents = << >>
    /\ fetchResult = "none"
    /\ fetchContext \in Contexts

\* lines 148-150: the loop condition holds and the operation is invoked
InvokeOperation ==
    /\ fetchPc = "loop"
    /\ LoopContinues(fetchI)
    /\ fetchCalls' = fetchCalls + 1
    /\ fetchEvents' = Append(fetchEvents, [kind |-> "call", delay |-> 0])
    /\ fetchPc' = "awaiting"
    /\ UNCHANGED <<rpcScript, fetchContext, fetchI, fetchResult>>
    /\ UNCHANGED <<contrarianVars, makerVars, detectVars, watcherVars, processVars>>

\* line 150: the operation resolved, its value is returned
OperationResolves ==
    /\ fetchPc = "awaiting"
    /\ rpcScript[fetchCalls] \in Values
    /\ fetchResult' = rpcScript[fetchCalls]
    /\ fetchPc' = "returned"
    /\ UNCHANGED <<rpcScript, fetchContext, fetchI, fetchCalls, fetchEvents>>
    /\ UNCHANGED <<contrarianVars, makerVars, detectVars, watcherVars, processVars>>

\* lines 151-155: the operation rejected with a 429; the backoff sleep starts
OperationRateLimited ==
    /\ fetchPc = "awaiting"
    /\ rpcScript[fetchCalls] \notin Values
    /\ IsRateLimit(rpcScript[fetchCalls])
    /\ fetchEvents' = Append(fetchEvents, [kind |-> "wait", delay |-> BackoffDelay(fetchI)])
    /\ fetchPc' = "sleeping"
    /\ UNCHANGED <<rpcScript, fetchContext, fetchI, fetchCalls, fetchResult>>
    /\ UNCHANGED <<contrarianVars, makerVars, detectVars, watcherVars, processVars>>

\* mutant: every error is retried after a backoff
OperationFails_Retried ==
    /\ fetchPc = "awaiting"
    /\ rpcScript[fetchCalls] \notin Values
    /\ ~IsRateLimit(rpcScript[fetchCalls])
    /\ fetchEvents' = Append(fetchEvents, [kind |-> "wait", delay |-> BackoffDelay(fetchI)])
    /\ fetchPc' = "sleeping"
    /\ UNCHANGED <<rpcScript, fetchContext, fetchI, fetchCalls, fetchResult>>
    /\ UNCHANGED <<contrarianVars, makerVars, detectVars, watcherVars, processVars>>

\* line 158: any other error is rethrown
OperationFails ==
    /\ fetchPc = "awaiting"
    /\ rpcScript[fetchCalls] \notin Values
    /\ ~IsRateLimit(rpcScript[fetchCalls])
    /\ fetchResult' = rpcScript[fetchCalls]
    /\ fetchPc' = "rethrown"
    /\ UNCHANGED <<rpcScript, fetchContext, fetchI, fetchCalls, fetchEvents>>
    /\ UNCHANGED <<contrarianVars, makerVars, detectVars, watcherVars, processVars>>

\* lines 144, 156 and 148: the sleep is over, continue with i++
BackoffEnds ==
    /\ fetchPc = "sleeping"
    /\ fetchI' = fetchI + 1
    /\ fetchPc' = "loop"
    /\ UNCHANGED <<rpcScript, fetchContext, fetchCalls, fetchEvents, fetchResult>>
    /\ UNCHANGED <<contrarianVars, makerVars, detectVars, watcherVars, processVars>>

\* lines 148 and 161: the loop is left, 'Failed after 5 retries' is thrown
RetriesExhausted ==
    /\ fetchPc = "loop"
    /\ ~LoopContinues(fetchI)
    /\ fetchResult' = ExhaustedRetries(fetchContext)
    /\ fetchPc' = "exhausted"
    /\ UNCHANGED <<rpcScript, fetchContext, fetchI, fetchCalls, fetchEvents>>
    /\ UNCHANGED <<contrarianVars, makerVars, detectVars, watcherVars, processVars>>

(***************************************************************************)
(*     order watcher: getInitialTrades, monitorTrades, writeTradestoCSV    *)
(*                                                                         *)
(* Every await on a timer or on the network is a point where the other     *)
(* invocations run; the code between two such awaits is one step.  The     *)
(* awaits of processTransaction and writeTradestoCSV, whose bodies never   *)
(* wait, are part of the step they are in.  An RPC call answers at once    *)
(* unless it is rate limited: the time it takes is that of the backoff     *)
(* sleeps of fetchWithRetry.  Time is kept as the milliseconds left until  *)
(* each timer fires.  Of the file-system errors only a failed write of a   *)
(* monitor batch is followed, in the long run.                             *)
(***************************************************************************)
RATE_LIMIT_DELAY == 500      \* ms
UPDATE_INTERVAL == 5000      \* ms
INITIAL_DELAY == 1000        \* ms, the sleep of line 280
INITIAL_LIMIT == 1000        \* signatures asked for by getInitialTrades
MONITOR_LIMIT == 25          \* signatures asked for by monitorTrades

\* bounds of the model
MaxTxs == 2              \* transactions of the token that get confirmed
MaxCycles == 2           \* firings of the interval timer
MaxSteadyTxs == 10       \* the same two, for the long run in which batches
MaxSteadyCycles == 3     \* of five trades are written

CycleIds == 0..(MaxCycles + MaxSteadyCycles)

\* How many 429 answers a call of fetchWithRetry meets before its operation
\* settles, with a result or with another error: none, or two.
RateLimitRuns == {0, 2}

\* the time fetchWithRetry sleeps when its first k attempts are rate limited
RECURSIVE TotalBackoff(_)
TotalBackoff(k) == IF k = 0 THEN 0 ELSE TotalBackoff(k - 1) + BackoffDelay(k - 1)

\* What a newly confirmed transaction is for processTransaction: a trade
\* (the type is the one processTransaction reports, the amount is in
\* hundredths of a SOL) or a transaction it skips.  dt is the number of
\* seconds since the block of the one before.
TxShapes ==
    { [kind |-> "BUY", solAmount |-> 100, dt |-> 1],
      [kind |-> "skip", solAmount |-> 0, dt |-> 1] }

\* the long run: trades only, a buy and a sell in turn, one block each
SteadyShape(n) ==
    [kind |-> IF n % 2 = 1 THEN "BUY" ELSE "SELL", solAmount |-> 100, dt |-> 1]

IsTrade(tx) == tx.kind \in {"BUY", "SELL"}

\* lines 259-265: the record processTransaction returns for a trade
TradeInfo(tx) ==
    TradeRecord(tx.blockTime, tx.kind, tx.solAmount, Signature(tx.signature, tx.signature))

Reverse(seq) == [k \in 1..Len(seq) |-> seq[Len(seq) + 1 - k]]

FirstN(seq, n) == IF Len(seq) <= n THEN seq ELSE SubSeq(seq, 1, n)

\* connection.getSignaturesForAddress(mint, {limit}): the most recent
\* transactions of the token, newest first
GetSignaturesForAddress(limit) == FirstN(Reverse(chain), limit)

\* lines 365-368
RECURSIVE FilterNew(_, _)
FilterNew(signatures, k) ==
    IF k > Len(signatures) THEN << >>
    ELSE LET sig == signatures[k]
             rest == FilterNew(signatures, k + 1)
         IN IF sig.signature \notin processedSignatures /\ sig.blockTime > lastProcessedTime
            THEN << sig >> \o rest
            ELSE rest

\* line 331: Array.prototype.sort by timestamp, ascending; the sort is stable
RECURSIVE InsertByTimestamp(_, _)
InsertByTimestamp(sorted, trade) ==
    IF sorted = << >> THEN << trade >>
    ELSE IF Head(sorted).timestamp <= trade.timestamp
         THEN << Head(sorted) >> \o InsertByTimestamp(Tail(sorted), trade)
         ELSE << trade >> \o sorted

RECURSIVE SortByTimestamp(_)
SortByTimestamp(trades) ==
    IF trades = << >> THEN << >>
    ELSE InsertByTimestamp(SortByTimestamp(SubSeq(trades, 1, Len(trades) - 1)),
                           trades[Len(trades)])

\* lines 87-131: the content of the file after writeTradestoCSV(mint, trades)
WrittenFile(file, initialFetch, trades) ==
    IF initialFetch THEN trades ELSE file \o trades

IdleCycle == [pc |-> "idle"]
DoneCycle == [pc |-> "done"]

\* the invocation is suspended for wakeIn ms more, at signature idx of its list
WaitingCycle(pc, signatures, idx, validTrades, wakeIn, rateLimited) ==
    [pc |-> pc, signatures |-> signatures, idx |-> idx, validTrades |-> validTrades,
     wakeIn |-> wakeIn, rateLimited |-> rateLimited]

Active(c) == cycles[c].pc \in {"sigsWait", "txWait"}

\* the awaited sleep and fetchWithRetry of invocation c are over
Resumes(c, pc) == cycles[c].pc = pc /\ cycles[c].wakeIn = 0

\* lines 15-38
WatcherStart ==
    /\ processedSignatures = {}
    /\ pendingTrades = << >>
    /\ lastProcessedTime = 0
    /\ isInitialFetch = TRUE
    /\ cycles = [c \in CycleIds |-> IdleCycle]
    /\ timer = [armed |-> FALSE, next |-> 0, fires |-> 0]
    /\ classified = {}
    /\ notFound = {}
    /\ wstep = "other"

WatcherIdle == WatcherStart /\ chain = << >>

notWatcher == <<contrarianVars, makerStateVars, retryVars, detectVars, processVars>>

\* A transaction of the token is confirmed.  The chain is only looked at when
\* an answer to getSignaturesForAddress arrives, so it is followed at those
\* moments.
NewTx(shape, maxTxs) ==
    /\ Len(chain) < maxTxs
    /\ \E c \in CycleIds : Resumes(c, "sigsWait")
    /\ chain' = Append(chain,
           [signature |-> Len(chain) + 1,
            blockTime |-> (IF chain = << >> THEN 1 ELSE chain[Len(chain)].blockTime) + shape.dt,
            kind |-> shape.kind,
            solAmount |-> shape.solAmount])
    /\ wstep' = "other"
    /\ UNCHANGED <<processedSignatures, pendingTrades, lastProcessedTime, isInitialFetch,
                   cycles, timer, classified, notFound, ledger, fileExists>>
    /\ UNCHANGED notWatcher

\* line 433: setInterval(monitorTrades, UPDATE_INTERVAL)
SetInterval == timer' = [armed |-> TRUE, next |-> UPDATE_INTERVAL, fires |-> 0]

\* lines 269-286: getInitialTrades sleeps, then asks for the signatures
GetInitialTrades(k) ==
    /\ cycles[0].pc = "idle"
    /\ cycles' = [cycles EXCEPT ![0] =
           WaitingCycle("sigsWait", << >>, 0, << >>, INITIAL_DELAY + TotalBackoff(k), k)]
    /\ wstep' = "other"
    /\ UNCHANGED <<chain, processedSignatures, pendingTrades, lastProcessedTime, isInitialFetch,
                   timer, classified, notFound, ledger, fileExists>>
    /\ UNCHANGED notWatcher

\* lines 283 and 351-353, then 433: the signatures could not be fetched
InitialSignaturesFail ==
    /\ Resumes(0, "sigsWait")
    /\ cycles' = [cycles EXCEPT ![0] = DoneCycle]
    /\ SetInterval
    /\ wstep' = "sigsError"
    /\ UNCHANGED <<chain, processedSignatures, pendingTrades, lastProcessedTime, isInitialFetch,
                   classified, notFound, ledger, fileExists>>
    /\ UNCHANGED notWatcher

\* lines 321-350, then 433: the loop of getInitialTrades is over
InitialLoopOver(validTrades) ==
    /\ cycles' = [cycles EXCEPT ![0] = DoneCycle]
    /\ IF validTrades # << >>
       THEN LET sorted == LastN(SortByTimestamp(validTrades), BATCH_SIZE)
            IN /\ ledger' = WrittenFile(ledger, isInitialFetch, sorted)
               /\ fileExists' = TRUE
               /\ lastProcessedTime' = sorted[Len(sorted)].timestamp
       ELSE UNCHANGED <<ledger, fileExists, lastProcessedTime>>
    /\ isInitialFetch' = FALSE
    /\ SetInterval

\* lines 293-304: the next pass of the loop sleeps and fetches its transaction
InitialLoopOn(signatures, idx, validTrades, k) ==
    /\ cycles' = [cycles EXCEPT ![0] =
           WaitingCycle("txWait", signatures, idx, validTrades,
                        RATE_LIMIT_DELAY + TotalBackoff(k), k)]
    /\ UNCHANGED <<ledger, fileExists, lastProcessedTime, isInitialFetch, timer>>

\* lines 283-293: the signatures are there
InitialSignatures(k) ==
    /\ Resumes(0, "sigsWait")
    /\ cycles[0].rateLimited < MAX_RETRIES
    /\ LET signatures == GetSignaturesForAddress(INITIAL_LIMIT)
       IN IF signatures = << >>
          THEN InitialLoopOver(<< >>)
          ELSE InitialLoopOn(signatures, 1, << >>, k)
    /\ wstep' = "other"
    /\ UNCHANGED <<chain, processedSignatures, pendingTrades, classified, notFound>>
    /\ UNCHANGED notWatcher

\* lines 298-314: the transaction is there (or null) and is classified
InitialTx(outcome, k) ==
    /\ Resumes(0, "txWait")
    /\ cycles[0].rateLimited < MAX_RETRIES
    /\ LET c == cycles[0]
           sig == c.signatures[c.idx]
           tx == chain[sig.signature]
           trade == outcome = "tx" /\ IsTrade(tx)
           validTrades == IF trade THEN Append(c.validTrades, TradeInfo(tx)) ELSE c.validTrades
       IN /\ processedSignatures' =
                IF trade THEN processedSignatures \cup {sig.signature} ELSE processedSignatures
          /\ classified' = classified \cup {sig.signature}
          /\ notFound' = IF outcome = "null"
                         THEN notFound \cup {[signature |-> sig.signature, cycle |-> 0]}
                         ELSE notFound
          /\ IF (trade /\ Len(validTrades) >= BATCH_SIZE) \/ c.idx = Len(c.signatures)
             THEN InitialLoopOver(validTrades)
             ELSE InitialLoopOn(c.signatures, c.idx + 1, validTrades, k)
          /\ wstep' = "tx"
    /\ UNCHANGED <<chain, pendingTrades>>
    /\ UNCHANGED notWatcher

\* lines 315-318: fetchWithRetry or processTransaction threw
InitialTxError(k) ==
    /\ Resumes(0, "txWait")
    /\ LET c == cycles[0]
       IN /\ IF c.idx = Len(c.signatures)
             THEN InitialLoopOver(c.validTrades)
             ELSE InitialLoopOn(c.signatures, c.idx + 1, c.validTrades, k)
          /\ wstep' = "txError"
    /\ UNCHANGED <<chain, processedSignatures, pendingTrades, classified, notFound>>
    /\ UNCHANGED notWatcher

\* lines 356-363: the timer fires and monitorTrades asks for the signatures
TimerFires(k, maxCycles) ==
    /\ timer.armed
    /\ timer.next = 0
    /\ timer.fires < maxCycles
    /\ cycles' = [cycles EXCEPT ![timer.fires + 1] =
           WaitingCycle("sigsWait", << >>, 0, << >>, TotalBackoff(k), k)]
    /\ timer' = [timer EXCEPT !.next = UPDATE_INTERVAL, !.fires = @ + 1]
    /\ wstep' = "other"
    /\ UNCHANGED <<chain, processedSignatures, pendingTrades, lastProcessedTime, isInitialFetch,
                   classified, notFound, ledger, fileExists>>
    /\ UNCHANGED notWatcher

\* lines 375-377: the first signature from idx on that is not in the set;
\* 0 when there is none
RECURSIVE NextUnprocessed(_, _, _)
NextUnprocessed(signatures, idx, processed) ==
    IF idx > Len(signatures) THEN 0
    ELSE IF signatures[idx].signature \in processed
         THEN NextUnprocessed(signatures, idx + 1, processed)
         ELSE idx

\* lines 375-387 and 413-421: the loop goes on with the next signature that
\* is not in the set, sleeps and fetches its transaction; or it is over
MonitorLoop(c, signatures, idx, processed, k) ==
    LET j == NextUnprocessed(signatures, idx, processed)
    IN cycles' = [cycles EXCEPT ![c] =
           IF j = 0 THEN DoneCycle
           ELSE WaitingCycle("txWait", signatures, j, << >>,
                             RATE_LIMIT_DELAY + TotalBackoff(k), k)]

\* lines 360 and 422-424: the signatures could not be fetched
MonitorSignaturesFail(c) ==
    /\ c > 0
    /\ Resumes(c, "sigsWait")
    /\ cycles' = [cycles EXCEPT ![c] = DoneCycle]
    /\ wstep' = "sigsError"
    /\ UNCHANGED <<chain, processedSignatures, pendingTrades, lastProcessedTime, isInitialFetch,
                   timer, classified, notFound, ledger, fileExists>>
    /\ UNCHANGED notWatcher

\* lines 360-375: the signatures are there and are filtered
MonitorSignatures(c, k) ==
    /\ c > 0
    /\ Resumes(c, "sigsWait")
    /\ cycles[c].rateLimited < MAX_RETRIES
    /\ LET newSignatures == FilterNew(GetSignaturesForAddress(MONITOR_LIMIT), 1)
       IN IF newSignatures = << >>
          THEN cycles' = [cycles EXCEPT ![c] = DoneCycle]
          ELSE MonitorLoop(c, newSignatures, 1, processedSignatures, k)
    /\ wstep' = "other"
    /\ UNCHANGED <<chain, processedSignatures, pendingTrades, lastProcessedTime, isInitialFetch,
                   timer, classified, notFound, ledger, fileExists>>
    /\ UNCHANGED notWatcher

\* lines 381-407: the transaction is there (or null) and is classified
MonitorTx(c, outcome, k) ==
    /\ c > 0
    /\ Resumes(c, "txWait")
    /\ cycles[c].rateLimited < MAX_RETRIES
    /\ LET sig == cycles[c].signatures[cycles[c].idx]
           tx == chain[sig.signature]
           trade == outcome = "tx" /\ IsTrade(tx)
           pushed == IF trade THEN Append(pendingTrades, TradeInfo(tx)) ELSE pendingTrades
           batch == trade /\ Len(pushed) >= BATCH_SIZE
       IN /\ ledger' = IF batch THEN WrittenFile(ledger, isInitialFetch, pushed) ELSE ledger
          /\ fileExists' = (batch \/ fileExists)
          /\ pendingTrades' = IF batch THEN << >> ELSE pushed
          /\ processedSignatures' = processedSignatures \cup {sig.signature}
          /\ lastProcessedTime' = IF outcome = "tx" THEN tx.blockTime ELSE lastProcessedTime
          /\ classified' = classified \cup {sig.signature}
          /\ notFound' = IF outcome = "null"
                         THEN notFound \cup {[signature |-> sig.signature, cycle |-> c]}
                         ELSE notFound
          /\ MonitorLoop(c, cycles[c].signatures, cycles[c].idx + 1,
                         processedSignatures \cup {sig.signature}, k)
          /\ wstep' = "tx"
    /\ UNCHANGED <<chain, isInitialFetch, timer>>
    /\ UNCHANGED notWatcher

\* lines 381-407 with 82-135: the trade fills the batch and the write of the
\* file throws; writeTradestoCSV catches and logs the error (133-135) and
\* returns, and monitorTrades goes on at line 397
MonitorTxWriteFails(c, k) ==
    /\ c > 0
    /\ Resumes(c, "txWait")
    /\ cycles[c].rateLimited < MAX_RETRIES
    /\ LET sig == cycles[c].signatures[cycles[c].idx]
           tx == chain[sig.signature]
       IN /\ IsTrade(tx)
          /\ Len(pendingTrades) + 1 >= BATCH_SIZE
          /\ pendingTrades' = << >>
          /\ processedSignatures' = processedSignatures \cup {sig.signature}
          /\ lastProcessedTime' = tx.blockTime
          /\ classified' = classified \cup {sig.signature}
          /\ MonitorLoop(c, cycles[c].signatures, cycles[c].idx + 1,
                         processedSignatures \cup {sig.signature}, k)
          /\ wstep' = "tx"
    /\ UNCHANGED <<chain, isInitialFetch, timer, notFound, ledger, fileExists>>
    /\ UNCHANGED notWatcher

\* mutant: the signature is marked although its processing threw
MonitorTxError_Marks(c, k) ==
    /\ c > 0
    /\ Resumes(c, "txWait")
    /\ LET sig == cycles[c].signatures[cycles[c].idx]
       IN /\ processedSignatures' = processedSignatures \cup {sig.signature}
          /\ MonitorLoop(c, cycles[c].signatures, cycles[c].idx + 1,
                         processedSignatures \cup {sig.signature}, k)
          /\ wstep' = "txError"
    /\ UNCHANGED <<chain, pendingTrades, lastProcessedTime, isInitialFetch,
                   timer, classified, notFound, ledger, fileExists>>
    /\ UNCHANGED notWatcher

\* mutant: an error ends the loop
MonitorTxError_Aborts(c, k) ==
    /\ c > 0
    /\ Resumes(c, "txWait")
    /\ cycles' = [cycles EXCEPT ![c] = DoneCycle]
    /\ wstep' = "txError"
    /\ UNCHANGED <<chain, processedSignatures, pendingTrades, lastProcessedTime, isInitialFetch,
                   timer, classified, notFound, ledger, fileExists>>
    /\ UNCHANGED notWatcher

\* lines 408-412: fetchWithRetry or processTransaction threw
MonitorTxError(c, k) ==
    /\ c > 0
    /\ Resumes(c, "txWait")
    /\ MonitorLoop(c, cycles[c].signatures, cycles[c].idx + 1, processedSignatures, k)
    /\ wstep' = "txError"
    /\ UNCHANGED <<chain, processedSignatures, pendingTrades, lastProcessedTime, isInitialFetch,
                   timer, classified, notFound, ledger, fileExists>>
    /\ UNCHANGED notWatcher

\* the times at which something is due: the suspended invocations and the timer
DueTimes(maxCycles) ==
    { cycles[c].wakeIn : c \in { x \in CycleIds : Active(x) } }
        \cup (IF timer.armed /\ timer.fires < maxCycles THEN {timer.next} ELSE {})

\* time passes, up to the next moment at which something is due
AdvanceTime(maxCycles) ==
    /\ DueTimes(maxCycles) # {}
    /\ \A t \in DueTimes(maxCycles) : t > 0
    /\ LET d == CHOOSE t \in DueTimes(maxCycles) : \A u \in DueTimes(maxCycles) : t <= u
       IN /\ cycles' = [c \in CycleIds |->
                 IF Active(c) THEN [cycles[c] EXCEPT !.wakeIn = @ - d] ELSE cycles[c]]
          /\ timer' = IF timer.armed /\ timer.fires < maxCycles
                      THEN [timer EXCEPT !.next = @ - d]
                      ELSE timer
    /\ wstep' = "other"
    /\ UNCHANGED <<chain, processedSignatures, pendingTrades, lastProcessedTime, isInitialFetch,
                   classified, notFound, ledger, fileExists>>
    /\ UNCHANGED notWatcher


(***************************************************************************)
(*          order watcher: processTransaction called on its own            *)
(*                                                                         *)
(* Amounts of SOL are in units of 0.0001 SOL (the code divides lamports by  *)
(* LAMPORTS_PER_SOL and computes in floating point), token amounts are     *)
(* uiAmounts.  Account indices start at 1; 0 stands for the -1 of          *)
(* findIndex and of the loop of lines 192-198.  The watcher's              *)
(* specifications take the outcome of processTransaction from the shape    *)
(* of the transaction; the function itself and its debug counters, which   *)
(* no decision of the watcher reads, are followed here.                    *)
(***************************************************************************)
MIN_SOL_AMOUNT == 10         \* 0.001 SOL

\* bound of the model
MaxCalls == 2                \* calls of processTransaction in a collection run

TARGET_MINT == "MINT"
OTHER_MINT == "OTHER"

USER_ACCOUNT == 1            \* the trader's wallet among the account keys
SECOND_ACCOUNT == 2          \* the fee collector, or some other account

TokenBalance(mint, accountIndex, uiAmount) ==
    [mint |-> mint, accountIndex |-> accountIndex, uiAmount |-> uiAmount]

\* The transactions processTransaction is called with.  The trader's wallet
\* holds 5 SOL before; after, it holds the same, 1 SOL, 0.001 SOL or
\* 0.0005 SOL less, or 1 SOL more.  The second account's balance grows by nothing, by
\* 0.01 SOL or by 2 SOL; it is Pump.fun's fee account or it is not.  The
\* trader's token account for the mint holds 1000 tokens before (or is not
\* listed) and 0, 1000 or 2000 after (or is not listed, or is of another
\* mint).
PumpTxs ==
    { [meta |-> TRUE,
       isPumpTransaction |-> TRUE,
       pumpFunFeeAccount |-> fee,
       preBalances |-> << 50000, 0 >>,
       postBalances |-> << userPost, secondPost >>,
       preTokenBalances |-> pre,
       postTokenBalances |-> post,
       blockTime |-> 1,
       signature |-> 1] :
         fee \in {0, SECOND_ACCOUNT},
         userPost \in {50000, 40000, 49990, 49995, 60000},
         secondPost \in {0, 100, 20000},
         pre \in { << >>, << TokenBalance(TARGET_MINT, USER_ACCOUNT, 1000) >> },
         post \in { << >>, << TokenBalance(OTHER_MINT, USER_ACCOUNT, 2000) >> }
                    \cup { << TokenBalance(TARGET_MINT, USER_ACCOUNT, a) >> : a \in {0, 1000, 2000} } }

BaseTx == CHOOSE tx \in PumpTxs : TRUE

\* the value null / a transaction without meta or blockTime, and a
\* transaction that does not name the Pump.fun program
Txs == PumpTxs \cup { [BaseTx EXCEPT !.meta = FALSE, !.isPumpTransaction = FALSE],
                      [BaseTx EXCEPT !.isPumpTransaction = FALSE] }

\* lines 188-198: the index of the account with the largest SOL change
RECURSIVE LargestChange(_, _, _, _)
LargestChange(tx, i, maxSolChange, userAccountIndex) ==
    IF i > Len(tx.preBalances) THEN userAccountIndex
    ELSE LET solChange == Abs(tx.postBalances[i] - tx.preBalances[i])
         IN IF solChange > maxSolChange
            THEN LargestChange(tx, i + 1, solChange, i)
            ELSE LargestChange(tx, i + 1, maxSolChange, userAccountIndex)

\* lines 205-208
UserTokenAccounts(tx, mint) ==
    SelectSeq(tx.postTokenBalances,
              LAMBDA b : /\ b.mint = mint
                         /\ \E k \in DOMAIN tx.preTokenBalances :
                                tx.preTokenBalances[k].accountIndex = b.accountIndex)

\* lines 217-219: Array.prototype.find
FindByAccountIndex(balances, accountIndex) ==
    LET found == SelectSeq(balances, LAMBDA b : b.accountIndex = accountIndex)
    IN found[1]

NoRecord == [type |-> "null"]

\* mutant: the fee is subtracted whatever the direction
FeeApplies_Always(isBuy, pumpFunFeeAccount) == pumpFunFeeAccount # 0

\* line 236: the condition of the fee correction
FeeApplies(isBuy, pumpFunFeeAccount) == isBuy /\ pumpFunFeeAccount # 0

\* mutant: no minimum
BelowMinimum_Never(actualSolChange) == FALSE

\* line 242
BelowMinimum(actualSolChange) == actualSolChange < MIN_SOL_AMOUNT

\* lines 164-266: where processTransaction returns, and what.  The return of
\* line 221 is never taken: the filter of 205-208 keeps only entries for
\* which find has a result.  An uiAmount of null counts as 0 (223-224).
ProcessOutcome(tx, mint) ==
    IF ~tx.meta THEN [exit |-> "noMeta", record |-> NoRecord]
    ELSE IF ~tx.isPumpTransaction THEN [exit |-> "notPump", record |-> NoRecord]
    ELSE LET userAccountIndex == LargestChange(tx, 1, 0, 0)
         IN IF userAccountIndex = 0 THEN [exit |-> "noUser", record |-> NoRecord]
    ELSE LET userSolChange == tx.preBalances[userAccountIndex] - tx.postBalances[userAccountIndex]
             userTokenAccounts == UserTokenAccounts(tx, mint)
         IN IF userTokenAccounts = << >> THEN [exit |-> "noToken", record |-> NoRecord]
    ELSE LET postTokenBalance == userTokenAccounts[1]
             preTokenBalance == FindByAccountIndex(tx.preTokenBalances, postTokenBalance.accountIndex)
             preAmount == preTokenBalance.uiAmount
             postAmount == postTokenBalance.uiAmount
             tokenChange == Abs(postAmount - preAmount)
         IN IF tokenChange = 0 THEN [exit |-> "noChange", record |-> NoRecord]
    ELSE LET isBuy == postAmount > preAmount
             pumpFunFee == IF tx.pumpFunFeeAccount = 0 THEN 0
                           ELSE tx.postBalances[tx.pumpFunFeeAccount]
                                    - tx.preBalances[tx.pumpFunFeeAccount]
             actualSolChange == IF FeeApplies(isBuy, tx.pumpFunFeeAccount)
                                THEN Abs(userSolChange) - pumpFunFee
                                ELSE Abs(userSolChange)
         IN IF BelowMinimum(actualSolChange) THEN [exit |-> "belowMin", record |-> NoRecord]
    ELSE [exit |-> "trade",
          record |-> [timestamp |-> tx.blockTime,
                      type |-> IF isBuy THEN "SELL" ELSE "BUY",
                      solAmount |-> actualSolChange,
                      tokenAmount |-> tokenChange,
                      txHash |-> tx.signature]]

\* lines 35-38 and 271-274: the counters at the start of a collection run
ProcessIdle ==
    /\ processedCount = 0
    /\ skippedByPump = 0
    /\ skippedByToken = 0
    /\ skippedByAmount = 0
    /\ tradesReturned = 0
    /\ processCall = [pc |-> "idle", calls |-> 0]

\* lines 164-266: one call of processTransaction
ProcessTransaction(tx, maxCalls) ==
    LET out == ProcessOutcome(tx, TARGET_MINT)
    IN /\ processCall.calls < maxCalls
       /\ processedCount' = IF out.exit = "noMeta" THEN processedCount ELSE processedCount + 1
       /\ skippedByPump' = IF out.exit = "notPump" THEN skippedByPump + 1 ELSE skippedByPump
       /\ skippedByToken' = IF out.exit = "noToken" THEN skippedByToken + 1 ELSE skippedByToken
       /\ skippedByAmount' = IF out.exit = "belowMin" THEN skippedByAmount + 1 ELSE skippedByAmount
       /\ tradesReturned' = IF out.exit = "trade" THEN tradesReturned + 1 ELSE tradesReturned
       /\ processCall' = [pc |-> "returned",
                          calls |-> processCall.calls + 1,
                          tx |-> tx,
                          exit |-> out.exit,
                          result |-> out.record]
       /\ UNCHANGED <<contrarianVars, makerVars, retryVars, detectVars, watcherVars>>
(***************************************************************************)
(*                     The specifications                                  *)
(***************************************************************************)
\* the percentages of a market maker that is not running
MakerIdle ==
    /\ MakerStart
    /\ fileExists = FALSE
    /\ ledger = << >>
    /\ buyPercentage = 0
    /\ sellPercentage = 0

ContrarianInit == ContrarianStart /\ MakerIdle /\ RetryStart /\ DetectIdle /\ WatcherIdle /\ ProcessIdle

ContrarianNext ==
    \/ Tick
    \/ \E i \in HandlerIds, t \in Tokens : \E data \in DataFor(t) : StartDetection(i, t, data)
    \/ \E i \in HandlerIds : PlaceOrder(i)
    \/ \E i \in HandlerIds : Suppress(i)
    \/ \E i \in HandlerIds : GatewayReturns(i)
    \/ \E i \in HandlerIds : GatewayThrows(i)
    \/ \E i \in HandlerIds : Forget(i)

SpecContrarian == ContrarianInit /\ [][ContrarianNext]_vars

MakerSpecInit == MakerInit /\ ContrarianStart /\ RetryStart /\ DetectIdle /\ WatcherIdle /\ ProcessIdle

MakerNext ==
    \/ \E a \in Arrivals : LedgerAppend(a)
    \/ PollNoFile
    \/ PollTooFew
    \/ PollSeen
    \/ PollZero
    \/ PollDropped
    \/ \E i \in WatcherIds : PollExecutes(i)
    \/ \E i \in WatcherIds : CurveUnavailable(i)
    \/ \E i \in WatcherIds : SendOrder(i)
    \/ \E i \in WatcherIds : OrderSettles(i)

SpecMaker == MakerSpecInit /\ [][MakerNext]_vars

\* an awaited call of the SDK settles: it resolves or it throws
SdkSettles == \E i \in WatcherIds : CurveUnavailable(i) \/ SendOrder(i) \/ OrderSettles(i)

SpecMakerLive == SpecMaker /\ WF_vars(SdkSettles)

\* The long run of the market maker: it starts without a trade file, the
\* percentages are 10 and 20, the file grows by the steady stream and the
\* bonding curve account is always found.
SteadyInit ==
    /\ MakerStart
    /\ ledger = << >>
    /\ fileExists = FALSE
    /\ buyPercentage = 10
    /\ sellPercentage = 20
    /\ ContrarianStart
    /\ RetryStart
    /\ DetectIdle
    /\ WatcherIdle
    /\ ProcessIdle

SteadyNext ==
    \/ LedgerAppendSteady
    \/ PollNoFile
    \/ PollTooFew
    \/ PollSeen
    \/ PollZero
    \/ \E i \in WatcherIds : PollExecutes(i)
    \/ \E i \in WatcherIds : SendOrder(i)
    \/ \E i \in WatcherIds : OrderSettles(i)

SpecMakerSteady == SteadyInit /\ [][SteadyNext]_vars

RetrySpecInit == RetryInit /\ ContrarianStart /\ MakerIdle /\ DetectIdle /\ WatcherIdle /\ ProcessIdle

RetryNext ==
    \/ InvokeOperation
    \/ OperationResolves
    \/ OperationRateLimited
    \/ OperationFails
    \/ BackoffEnds
    \/ RetriesExhausted

SpecRetry == RetrySpecInit /\ [][RetryNext]_vars

\* fetchWithRetry keeps running: its timers fire and the awaited operation settles
SpecRetryLive == SpecRetry /\ WF_vars(RetryNext)

DetectSpecInit == DetectInit /\ ContrarianStart /\ MakerIdle /\ RetryStart /\ WatcherIdle /\ ProcessIdle

DetectNext == DetectReturns

SpecDetect == DetectSpecInit /\ [][DetectNext]_vars

DetectDupSpecInit == DetectDupInit /\ ContrarianStart /\ MakerIdle /\ RetryStart /\ WatcherIdle /\ ProcessIdle

SpecDetectDup == DetectDupSpecInit /\ [][DetectNext]_vars

WatcherSpecInit ==
    WatcherIdle /\ MakerIdle /\ ContrarianStart /\ RetryStart /\ DetectIdle /\ ProcessIdle

\* Rate limits, errors and overlapping invocations.  A fetched transaction
\* that comes back null is skipped like one that processTransaction skips;
\* it is followed in the long run below.
WatcherNext ==
    \/ \E shape \in TxShapes : NewTx(shape, MaxTxs)
    \/ \E k \in RateLimitRuns : GetInitialTrades(k)
    \/ InitialSignaturesFail
    \/ \E k \in RateLimitRuns : InitialSignatures(k)
    \/ \E k \in RateLimitRuns : InitialTx("tx", k)
    \/ \E k \in RateLimitRuns : InitialTxError(k)
    \/ \E k \in RateLimitRuns : TimerFires(k, MaxCycles)
    \/ \E c \in CycleIds : MonitorSignaturesFail(c)
    \/ \E c \in CycleIds, k \in RateLimitRuns : MonitorSignatures(c, k)
    \/ \E c \in CycleIds, k \in RateLimitRuns : MonitorTx(c, "tx", k)
    \/ \E c \in CycleIds, k \in RateLimitRuns : MonitorTxError(c, k)
    \/ AdvanceTime(MaxCycles)

SpecWatcher == WatcherSpecInit /\ [][WatcherNext]_vars

\* The long run of the watcher: no call is rate limited, every transaction
\* is a trade, a fetched transaction may be missing (null), and the write of
\* a batch may fail.
WatcherSteadyNext ==
    \/ NewTx(SteadyShape(Len(chain) + 1), MaxSteadyTxs)
    \/ GetInitialTrades(0)
    \/ InitialSignaturesFail
    \/ InitialSignatures(0)
    \/ InitialTx("tx", 0)
    \/ TimerFires(0, MaxSteadyCycles)
    \/ \E c \in CycleIds : MonitorSignatures(c, 0)
    \/ \E c \in CycleIds, outcome \in {"tx", "null"} : MonitorTx(c, outcome, 0)
    \/ \E c \in CycleIds : MonitorTxWriteFails(c, 0)
    \/ AdvanceTime(MaxSteadyCycles)

SpecWatcherSteady == WatcherSpecInit /\ [][WatcherSteadyNext]_vars

ProcessSpecInit ==
    ProcessIdle /\ WatcherIdle /\ MakerIdle /\ ContrarianStart /\ RetryStart /\ DetectIdle

ProcessNext == \E tx \in Txs : ProcessTransaction(tx, MaxCalls)

SpecProcess == ProcessSpecInit /\ [][ProcessNext]_vars

(***************************************************************************)
(*                     Properties of handleTradeDetection                  *)
(***************************************************************************)
Placed(h) == h.pc \in {"gateway", "executed", "failed"}

\* C1: a detected trade of magnitude m for a token without TradeState places
\* the opposite order of size m x 0.10, and when the gateway returns the
\* token's TradeState holds the direction of the order placed and that size.
C1_StateRecordsPlacedOrder ==
    [][\A i \in HandlerIds :
        ( /\ handlers[i].pc = "gateway"
          /\ handlers'[i].pc = "executed"
          /\ ~handlers[i].lastState.present )
        => LET h == handlers[i]
               placed == IF h.tradeDirection = "buy" THEN "sell" ELSE "buy"
           IN /\ \E o \in orders :
                    /\ o.tokenAddress = h.tokenAddress
                    /\ o.side = placed
                    /\ o.size * 10 = h.swappedSOLAmount
              /\ tradeStates'[h.tokenAddress].present
              /\ tradeStates'[h.tokenAddress].lastTradeDirection = placed
              /\ tradeStates'[h.tokenAddress].lastTradeSizeInSOL * 10 = h.swappedSOLAmount
    ]_vars

\* C2: a detection that read an existing TradeState at most 1000 ms old places
\* no order and writes nothing; one that read a TradeState more than 1000 ms
\* old, with a direction, has called the gateway (once).
C2_CooldownDecides ==
    \A i \in HandlerIds :
        LET h == handlers[i] IN
        (h.pc \notin {"idle", "detected"} /\ h.lastState.present) =>
            IF h.currentTimestamp - h.lastState.lastTradeTimestamp <= 1000
            THEN h.pc = "suppressed" /\ h.gatewayCalls = 0
            ELSE h.tradeDirection # "null" =>
                    /\ Placed(h)
                    /\ h.gatewayCalls = 1
                    /\ \E o \in orders :
                          o.tokenAddress = h.tokenAddress /\ o.at = h.currentTimestamp

C2_SuppressedWritesNothing ==
    \A i \in HandlerIds :
        (handlers[i].pc = "detected" /\ handlers'[i].pc = "suppressed")
        => tradeStates' = tradeStates /\ orders' = orders

C2_Cooldown == []C2_CooldownDecides /\ [][C2_SuppressedWritesNothing]_vars

\* a detection exactly 1000 ms after the state it read was suppressed, and
\* one 1500 ms after it has called the gateway
C2_Witness ==
    \E i, j \in HandlerIds :
        /\ handlers[i].pc = "suppressed"
        /\ handlers[i].tradeDirection # "null"
        /\ handlers[i].lastState.present
        /\ handlers[i].currentTimestamp - handlers[i].lastState.lastTradeTimestamp = 1000
        /\ handlers[j].pc = "gateway"
        /\ handlers[j].lastState.present
        /\ handlers[j].currentTimestamp - handlers[j].lastState.lastTradeTimestamp = 1500

\* C3: a detection whose gateway call fails never writes TradeState (the only
\* handler step that changes it is the return of a successful call), places
\* nothing more, and has called the gateway exactly once.
C3_FailedStepsWriteNothing ==
    \A i \in HandlerIds :
        (handlers'[i] # handlers[i] /\ handlers'[i].pc # "executed")
        => tradeStates' = tradeStates

C3_FailedCallsOnce ==
    \A i \in HandlerIds :
        /\ handlers[i].pc = "failed" => handlers[i].gatewayCalls = 1
        /\ (handlers[i].pc = "failed" /\ handlers'[i] # handlers[i])
              => orders' = orders /\ handlers'[i].pc = "idle"

C3_FailureLeavesState ==
    [][C3_FailedStepsWriteNothing /\ C3_FailedCallsOnce]_vars

\* a failed gateway call for a token that had a TradeState, which is still
\* the one the detection read
C3_Witness ==
    \E i \in HandlerIds :
        /\ handlers[i].pc = "failed"
        /\ handlers[i].lastState.present
        /\ tradeStates[handlers[i].tokenAddress] = handlers[i].lastState


(***************************************************************************)
(*                     Properties of the market maker                      *)
(***************************************************************************)
PollSteps == {"nofile", "toofew", "seen", "zero", "dropped", "executes"}

InFlight == { i \in WatcherIds : watchers[i].pc \in {"curve", "order"} }

\* what belongs to the market maker's own state and to the SDK
MakerUntouched ==
    /\ processedBatches' = processedBatches
    /\ sdkOrders' = sdkOrders
    /\ watchers' = watchers
    /\ isProcessingTrade' = isProcessingTrade
    /\ markLog' = markLog

\* the net volume of a window of five, written out
Signed(trade) == IF trade.type = "SELL" THEN 0 - trade.solAmount ELSE trade.solAmount

Net5(window) ==
    Signed(window[1]) + Signed(window[2]) + Signed(window[3])
        + Signed(window[4]) + Signed(window[5])

TailWindow == SubSeq(ledger, Len(ledger) - 4, Len(ledger))

HasWindow == fileExists /\ Len(ledger) >= 5

\* the four parts of a window that make its identity
SameBoundary(w1, w2) ==
    /\ w1[1].timestamp = w2[1].timestamp
    /\ w1[5].timestamp = w2[5].timestamp
    /\ \A k \in 1..8 : w1[1].txHash[k] = w2[1].txHash[k]
    /\ \A k \in 1..8 : w1[5].txHash[k] = w2[5].txHash[k]

\* C4: at most one executeTrade is between setting and releasing the flag,
\* the flag is set exactly while one is, and a poll made while the flag is
\* set suspends no invocation and hands nothing to the SDK.
C4_AtMostOneInFlight ==
    /\ Cardinality(InFlight) <= 1
    /\ isProcessingTrade <=> (InFlight # {})

C4_PollWhileInFlight ==
    (isProcessingTrade /\ lastStep' \in PollSteps)
    => (watchers' = watchers /\ sdkOrders' = sdkOrders /\ isProcessingTrade')

C4_SingleExecution == []C4_AtMostOneInFlight /\ [][C4_PollWhileInFlight]_vars

\* a poll found an unseen batch with net volume while an execution was in
\* flight, and its executeTrade call returned at the guard
C4_Witness ==
    /\ lastStep = "dropped"
    /\ isProcessingTrade
    /\ Cardinality(InFlight) = 1
    /\ \E i \in InFlight : watchers[i].window # TailWindow

\* C5: the executeTrade call made for a window sells the net volume when it
\* is positive and buys its magnitude when it is negative, and the order
\* handed to the SDK is of that side, sized with that side's percentage
\* (a hundredth of a SOL at one percent is 100000 lamports).
C5_CallOpposesNet ==
    \A i \in InFlight :
        LET w == watchers[i]
            net == Net5(w.window)
        IN /\ net # 0
           /\ net > 0 => (~w.isBuy /\ w.amount = net)
           /\ net < 0 => (w.isBuy /\ w.amount = 0 - net)

C5_OrderOpposesNet ==
    \A o \in sdkOrders :
        LET net == Net5(o.window)
        IN /\ net # 0
           /\ net > 0 => /\ o.tradeType = "SELL"
                         /\ o.lamports = net * sellPercentage * 100000
           /\ net < 0 => /\ o.tradeType = "BUY"
                         /\ o.lamports = (0 - net) * buyPercentage * 100000

C5_PollCallsExecuteTrade ==
    ( /\ HasWindow
      /\ BatchIdOf(TailWindow) \notin Range(processedBatches)
      /\ Net5(TailWindow) # 0
      /\ ~isProcessingTrade
      /\ lastStep' \in PollSteps )
    => \E i \in WatcherIds :
          /\ watchers[i].pc = "idle"
          /\ watchers'[i].pc = "curve"
          /\ watchers'[i].window = TailWindow

C5_ContrarianBatch ==
    /\ [](C5_CallOpposesNet /\ C5_OrderOpposesNet)
    /\ [][C5_PollCallsExecuteTrade]_vars

\* a sell was sent for a window of net buying and a buy for one of net selling
C5_Witness ==
    /\ \E o \in sdkOrders : Net5(o.window) > 0 /\ o.tradeType = "SELL"
    /\ \E o \in sdkOrders : Net5(o.window) < 0 /\ o.tradeType = "BUY"

\* C6: a poll that finds an unseen window of net volume 0 sends no order,
\* starts no execution and adds the window's identity to the set.
C6_ZeroPoll ==
    ( /\ HasWindow
      /\ BatchIdOf(TailWindow) \notin Range(processedBatches)
      /\ Net5(TailWindow) = 0
      /\ lastStep' \in PollSteps )
    => /\ sdkOrders' = sdkOrders
       /\ watchers' = watchers
       /\ isProcessingTrade' = isProcessingTrade
       /\ BatchIdOf(TailWindow) \in Range(processedBatches')

C6_ZeroNetNoOrder == [][C6_ZeroPoll]_vars

\* the window [+1, -0.5, +0.5, -2, +1] was polled and marked, no order sent
C6_Witness ==
    /\ lastStep = "zero"
    /\ HasWindow
    /\ [k \in 1..5 |-> Signed(TailWindow[k])] = << 100, -50, 50, -200, 100 >>
    /\ BatchIdOf(TailWindow) \in Range(processedBatches)
    /\ sdkOrders = {}
    /\ InFlight = {}

\* C7: a window with the boundary of a window already marked has the same
\* identity, and a poll that finds it changes nothing.
C7_SameIdentity ==
    HasWindow =>
        \A k \in 1..Len(markLog) :
            SameBoundary(markLog[k], TailWindow)
                => BatchIdOf(markLog[k]) = BatchIdOf(TailWindow)

C7_SecondPoll ==
    ( /\ HasWindow
      /\ lastStep' \in PollSteps
      /\ \E k \in 1..Len(markLog) :
            /\ SameBoundary(markLog[k], TailWindow)
            /\ BatchIdOf(markLog[k]) \in Range(processedBatches) )
    => MakerUntouched

C7_BoundaryDedup == []C7_SameIdentity /\ [][C7_SecondPoll]_vars

\* the window polled last was never marked itself; a different window with
\* the same boundary was
C7_Witness ==
    /\ lastStep = "seen"
    /\ HasWindow
    /\ \A k \in 1..Len(markLog) : markLog[k] # TailWindow
    /\ \E k \in 1..Len(markLog) :
          /\ SameBoundary(markLog[k], TailWindow)
          /\ Net5(markLog[k]) # Net5(TailWindow)

\* C8: while the file holds fewer than 5 records nothing has been sent or
\* marked, and a poll changes nothing.
C8_NothingYet ==
    Len(ledger) < 5 =>
        /\ processedBatches = << >>
        /\ sdkOrders = {}
        /\ InFlight = {}
        /\ ~isProcessingTrade

C8_ShortPoll ==
    ((~fileExists \/ Len(ledger) < 5) /\ lastStep' \in PollSteps) => MakerUntouched

MarkedIds == [k \in 1..Len(markLog) |-> BatchIdOf(markLog[k])]

C9_Bounded ==
    /\ Len(processedBatches) <= 100
    /\ Len(processedBatches) <= Len(markLog)
    /\ processedBatches =
          SubSeq(MarkedIds, Len(markLog) - Len(processedBatches) + 1, Len(markLog))

C9_Overflow ==
    (Len(processedBatches) = 100 /\ Len(markLog') = Len(markLog) + 1)
    => /\ Len(processedBatches') = 50
       /\ processedBatches'[50] = BatchIdOf(markLog'[Len(markLog')])

C9_TrimToRecent == []C9_Bounded /\ [][C9_Overflow]_vars

\* the 101st insertion has happened: 50 identities are left, the last of
\* them the 101st
C9_Witness ==
    /\ Len(markLog) = 101
    /\ Len(processedBatches) = 50
    /\ processedBatches[50] = MarkedIds[101]
    /\ processedBatches[1] = MarkedIds[52]

(***************************************************************************)
(*                     Properties of fetchWithRetry                        *)
(***************************************************************************)
FetchOver == fetchPc \in {"returned", "rethrown", "exhausted"}

\* the operation rejects with a 429 on its first k invocations and resolves
\* on the next
FailsThenSucceeds(k) ==
    /\ k < 5
    /\ \A j \in 1..k : rpcScript[j] = "rateLimited"
    /\ rpcScript[k + 1] \in {"value_a", "value_b"}

\* C10: with an operation that is rate limited exactly k times (k < 5) and
\* then succeeds, the finished call has returned the operation's value after
\* k+1 invocations and k sleeps, the i-th of 2000 x 2^i ms, one between each
\* two consecutive invocations.
C10_RetriesThenReturns ==
    \A k \in 0..4 :
        (FetchOver /\ FailsThenSucceeds(k)) =>
            /\ fetchPc = "returned"
            /\ fetchResult = rpcScript[k + 1]
            /\ fetchCalls = k + 1
            /\ Len(fetchEvents) = 2 * k + 1
            /\ \A j \in 1..(k + 1) : fetchEvents[2 * j - 1].kind = "call"
            /\ \A j \in 1..k :
                  /\ fetchEvents[2 * j].kind = "wait"
                  /\ fetchEvents[2 * j].delay = 2000 * (2 ^ (j - 1))

\* four rate-limited invocations, then a value: returned after the sleeps of
\* 2, 4, 8 and 16 seconds
C10_Witness ==
    /\ fetchPc = "returned"
    /\ FailsThenSucceeds(4)
    /\ fetchCalls = 5
    /\ [j \in 1..4 |-> fetchEvents[2 * j].delay] = << 2000, 4000, 8000, 16000 >>

(***************************************************************************)
(*          Properties of fetchWithRetry: exhaustion and rethrow           *)
(***************************************************************************)
AlwaysRateLimited == \A j \in 1..5 : rpcScript[j] = "rateLimited"

C11_FiveAttempts ==
    AlwaysRateLimited =>
        /\ fetchCalls <= 5
        /\ FetchOver =>
              /\ fetchPc = "exhausted"
              /\ fetchCalls = 5
              /\ fetchResult = [failedAfter |-> 5, context |-> fetchContext]

C11_NothingAfterFailure == fetchPc # "exhausted"

C11_Terminates == AlwaysRateLimited => <>(fetchPc = "exhausted")

\* C11: with an operation that is always rate limited, fetchWithRetry invokes
\* it exactly 5 times, never a 6th, and then ends by throwing 'Failed after 5
\* retries while <context>'; no step follows the throw, and the throw is
\* always reached.
C11_ExhaustsAfterMaxRetries ==
    /\ []C11_FiveAttempts
    /\ [][C11_NothingAfterFailure]_vars
    /\ C11_Terminates

\* five rate-limited invocations, and the failure thrown names the context
C11_Witness ==
    /\ AlwaysRateLimited
    /\ fetchPc = "exhausted"
    /\ fetchCalls = 5
    /\ fetchResult.context = "fetching signatures"

\* the operation rejects with a 429 on its first k invocations and with
\* another error on the next
FailsThenError(k) ==
    /\ k < 5
    /\ \A j \in 1..k : rpcScript[j] = "rateLimited"
    /\ rpcScript[k + 1] = "otherError"

C12_RethrownAtOnce ==
    \A k \in 0..4 :
        (FetchOver /\ FailsThenError(k)) =>
            /\ fetchPc = "rethrown"
            /\ fetchResult = "otherError"
            /\ fetchCalls = k + 1
            /\ Len(fetchEvents) = 2 * k + 1
            /\ fetchEvents[2 * k + 1].kind = "call"

C12_RethrowStep ==
    /\ fetchPc # "rethrown"
    /\ (fetchPc = "awaiting" /\ rpcScript[fetchCalls] = "otherError") =>
          /\ fetchPc' = "rethrown"
          /\ fetchEvents' = fetchEvents
          /\ fetchCalls' = fetchCalls

\* C12: an error that is not a rate limit ends fetchWithRetry on the attempt
\* where it occurs: it is the error thrown, the step that throws it adds no
\* wait and no invocation, and nothing follows, after any number of
\* rate-limited attempts.
C12_OtherErrorsRethrown == []C12_RethrownAtOnce /\ [][C12_RethrowStep]_vars

\* two rate-limited attempts with their two waits, then the error of the
\* third attempt is thrown
C12_Witness ==
    /\ fetchPc = "rethrown"
    /\ FailsThenError(2)
    /\ fetchCalls = 3
    /\ Len(fetchEvents) = 5

(***************************************************************************)
(*                     Properties of detectLatestTrade                     *)
(***************************************************************************)
\* C13: detectLatestTrade returns buy with post - pre when the pool's native
\* balance grew, sell with pre - post when it shrank, and no side with 0
\* when it is the same, wherever the pool's two entries are in the lists.
C13_ClassifiesPoolDelta ==
    detectCall.pc = "returned" =>
        LET pre  == detectCall.prePoolNative
            post == detectCall.postPoolNative
            r    == detectCall.result
        IN /\ post > pre => r = [side |-> "buy", swappedSOLAmount |-> post - pre]
           /\ post < pre => r = [side |-> "sell", swappedSOLAmount |-> pre - post]
           /\ post = pre => r = [side |-> "null", swappedSOLAmount |-> 0]

\* 100 -> 101 SOL in the pool, with the trader's accounts in the lists: buy 1
C13_Witness ==
    /\ detectCall.pc = "returned"
    /\ detectCall.prePoolNative = 10000
    /\ detectCall.postPoolNative = 10100
    /\ Len(detectCall.data.preTokenBalances) = 4
    /\ detectCall.result = [side |-> "buy", swappedSOLAmount |-> 100]

(***************************************************************************)
(*        Properties of handleTradeDetection: overlapping detections       *)
(***************************************************************************)
\* C19: two detections for one token that both called the gateway were
\* handled more than 1000 ms apart.
C19_PlacementsSpacedOut ==
    \A i, j \in HandlerIds :
        (/\ i # j
         /\ Placed(handlers[i])
         /\ Placed(handlers[j])
         /\ handlers[i].tokenAddress = handlers[j].tokenAddress)
        => Abs(handlers[i].currentTimestamp - handlers[j].currentTimestamp) > 1000

\* ---------------------------------------------------------------------
\* The order watcher
\* ---------------------------------------------------------------------

\* the step just taken was the catch of a failed fetch or classification
ErrorStep == wstep' \in {"txError", "sigsError"}

\* C14 (set): every signature of processedSignatures was fetched and went
\* through processTransaction to a trade or a skip.
C14_OnlyClassified == processedSignatures \subseteq classified

\* C14 (step): the step in which a fetch or a classification threw adds
\* nothing to processedSignatures.
C14_ErrorAddsNothing ==
    [][ErrorStep => processedSignatures' = processedSignatures]_vars

\* C14: processedSignatures holds only signatures that were fetched and
\* classified to a definitive outcome, and a fetch or classification that
\* threw does not put its signature into the set.
C14_ProcessedMeansClassified == []C14_OnlyClassified /\ C14_ErrorAddsNothing

\* a transaction's processing has just thrown, with one signature in the
\* set and another one outside it
C14_Witness ==
    /\ wstep = "txError"
    /\ processedSignatures # {}
    /\ \E n \in 1..Len(chain) : n \notin processedSignatures

\* the invocations of monitorTrades that are in progress
ActiveMonitors == { c \in CycleIds : c > 0 /\ Active(c) }

\* C17: at most one invocation of monitorTrades is in progress at any time.
C17_OneCycleAtATime == Cardinality(ActiveMonitors) <= 1

\* the transaction hashes of the ledger's records followed by those of the
\* trades that wait in pendingTrades
RecordedHashes == [n \in 1..(Len(ledger) + Len(pendingTrades)) |->
    IF n <= Len(ledger) THEN ledger[n].txHash ELSE pendingTrades[n - Len(ledger)].txHash]

\* C18: no transaction signature occurs twice among the ledger's records
\* and the pending trades.
C18_OneRecordPerSignature ==
    \A m, n \in DOMAIN RecordedHashes : m # n => RecordedHashes[m] # RecordedHashes[n]

\* the loop of invocation c is at its last signature
AtLastSignature(c) == cycles[c].idx = Len(cycles[c].signatures)

\* the trades the loop of invocation c has collected so far
Collected(c) == IF c = 0 THEN cycles[c].validTrades ELSE pendingTrades

\* C20 (initial scan): after an error on a signature the loop of
\* getInitialTrades fetches the next signature with the trades it has
\* collected; after the last signature those trades are written.
C20_InitialLoopGoesOn ==
    LET c == cycles[0] IN
    IF AtLastSignature(0)
    THEN /\ cycles'[0] = DoneCycle
         /\ ledger' = IF c.validTrades = << >> THEN ledger
                      ELSE LastN(SortByTimestamp(c.validTrades), BATCH_SIZE)
    ELSE /\ cycles'[0].pc = "txWait"
         /\ cycles'[0].signatures = c.signatures
         /\ cycles'[0].idx = c.idx + 1
         /\ cycles'[0].validTrades = c.validTrades
         /\ ledger' = ledger

\* C20 (monitor): after an error on a signature the loop of monitorTrades
\* fetches the next signature that is not in processedSignatures, if there
\* is one, and pendingTrades and the ledger are as before.
C20_MonitorLoopGoesOn(c) ==
    LET later == { n \in (cycles[c].idx + 1)..Len(cycles[c].signatures) :
                     cycles[c].signatures[n].signature \notin processedSignatures }
    IN /\ pendingTrades' = pendingTrades
       /\ ledger' = ledger
       /\ IF later = {}
          THEN cycles'[c] = DoneCycle
          ELSE /\ cycles'[c].pc = "txWait"
               /\ cycles'[c].signatures = cycles[c].signatures
               /\ cycles'[c].idx \in later
               /\ \A n \in later : cycles'[c].idx <= n

\* C20: an error on one signature does not end the scan loop it occurs in:
\* the signatures after it are still fetched, and the trades collected
\* before it are kept.
C20_ErrorDoesNotEndLoop ==
    [][wstep' = "txError" =>
         \A c \in CycleIds :
             cycles'[c] # cycles[c] =>
                 IF c = 0 THEN C20_InitialLoopGoesOn ELSE C20_MonitorLoopGoesOn(c)]_vars

\* a signature's processing has just thrown in a loop that had collected a
\* trade, and the loop is fetching a later signature
C20_Witness ==
    /\ wstep = "txError"
    /\ \E c \in CycleIds :
           /\ cycles[c].pc = "txWait"
           /\ cycles[c].idx > 1
           /\ Collected(c) # << >>

\* C15: the records of the ledger, in file order, have non-decreasing
\* timestamps.
C15_LedgerInTimeOrder ==
    \A n \in 1..(Len(ledger) - 1) : ledger[n].timestamp <= ledger[n + 1].timestamp

\* C16: once getInitialTrades has run, a write of the ledger by a monitor
\* cycle appends: the records that were in the file remain, as a prefix.
C16_MonitorWritesAppend ==
    [][(cycles[0] = DoneCycle /\ ledger' # ledger) =>
           /\ Len(ledger') >= Len(ledger)
           /\ SubSeq(ledger', 1, Len(ledger)) = ledger]_vars

\* ---------------------------------------------------------------------
\* The market maker: marking and the in-flight flag
\* ---------------------------------------------------------------------

\* C27: for every window of non-zero net volume that was marked as seen, an
\* order for that window was handed to the SDK (or the execution that will
\* hand it over is still in progress).
C27_MarkedMeansOrdered ==
    \A k \in 1..Len(markLog) :
        NetVolume(markLog[k]) # 0 =>
            \/ \E o \in sdkOrders : o.window = markLog[k]
            \/ \E i \in InFlight : watchers[i].window = markLog[k]

\* C30 (state): the flag is set exactly while an executeTrade call is
\* between its guard and its finally block.
C30_FlagMeansInFlight == isProcessingTrade <=> (InFlight # {})

\* C30 (progress): a flag that is set is released again.
C30_FlagReleased == isProcessingTrade ~> ~isProcessingTrade

\* C30: the in-flight flag is released on every exit path of executeTrade
\* (order settled, SDK error, no bonding curve account); it is set only
\* while an execution is in progress.
C30_FlagAlwaysReleased == []C30_FlagMeansInFlight /\ C30_FlagReleased

\* the flag is free again after an execution that found no bonding curve
\* account, in a run in which another execution sent its order
C30_Witness ==
    /\ lastStep = "nocurve"
    /\ ~isProcessingTrade
    /\ sdkOrders # {}

\* ---------------------------------------------------------------------
\* The order watcher: skips, the buffer and lastProcessedTime
\* ---------------------------------------------------------------------

\* the signature whose fetch invocation c is waiting for
FetchedBy(c) == cycles[c].signatures[cycles[c].idx].signature

\* C21 (skip): a fetch that returns null produces no trade record.
C21_NullProducesNoRecord ==
    [][notFound' # notFound => (pendingTrades' = pendingTrades /\ ledger' = ledger)]_vars

\* C21 (no retry): a signature whose fetch returned null in a monitorTrades
\* cycle is not fetched by a later cycle.
C21_NullNotFetchedAgain ==
    [][wstep' \in {"tx", "txError"} =>
         \A c \in CycleIds :
             cycles'[c] # cycles[c] =>
                 \A e \in notFound : e.signature = FetchedBy(c) => c <= e.cycle]_vars

\* C21: a signature whose transaction fetch returned null is skipped without
\* a trade record and is never fetched again in a later cycle.
C21_NullSkippedForGood == C21_NullProducesNoRecord /\ C21_NullNotFetchedAgain

\* C29: no step of getInitialTrades or monitorTrades lowers
\* lastProcessedTime.
C29_LastProcessedTimeGrows == [][lastProcessedTime' >= lastProcessedTime]_vars

\* ---------------------------------------------------------------------
\* detectLatestTrade on lists with repeated owner and mint
\* ---------------------------------------------------------------------

\* what detectLatestTrade returns for the pool's native amounts pre and post
PoolDelta(pre, post) ==
    IF post > pre THEN [side |-> "buy", swappedSOLAmount |-> post - pre]
    ELSE IF post < pre THEN [side |-> "sell", swappedSOLAmount |-> pre - post]
    ELSE [side |-> "null", swappedSOLAmount |-> 0]

\* C23: when a list holds several entries of the pool authority with the
\* same mint, the result is the one computed from the first of them.
C23_FirstMatchWins ==
    detectCall.pc = "returned" =>
        detectCall.result = PoolDelta(detectCall.prePoolNative, detectCall.postPoolNative)

\* the balance list with amount t in each of the pool's target-token entries
WithTokenAmount(balances, mint, t) ==
    [k \in DOMAIN balances |->
        IF balances[k].owner = RAYDIUM_AUTHORITY /\ balances[k].mint = mint
        THEN Balance(RAYDIUM_AUTHORITY, mint, t)
        ELSE balances[k]]

\* C24: the result is the same for every input that differs from the one
\* given only in the amounts of the pool's target-token entries.
C24_TokenAmountsIrrelevant ==
    detectCall.pc = "returned" =>
        \A t1, t2 \in DupTokenAmounts :
            detectLatestTrade(
                [preTokenBalances |->
                     WithTokenAmount(detectCall.data.preTokenBalances,
                                     detectCall.targetTokenMint, t1),
                 postTokenBalances |->
                     WithTokenAmount(detectCall.data.postTokenBalances,
                                     detectCall.targetTokenMint, t2)],
                detectCall.targetTokenMint) = detectCall.result

\* ---------------------------------------------------------------------
\* processTransaction
\* ---------------------------------------------------------------------

\* C22: every transaction counted in processedCount is counted in exactly
\* one of the skip counters or returned a trade record.
C22_CountersAddUp ==
    processedCount = skippedByPump + skippedByToken + skippedByAmount + tradesReturned

\* a call of processTransaction has returned a trade record
ReturnedTrade == processCall.pc = "returned" /\ processCall.exit = "trade"

\* C25: a record is a SELL exactly when the balance of the target mint grew
\* and a BUY exactly when it shrank, and its amount is the wallet's SOL
\* change, less the fee collector's gain only when the balance grew.
C25_MirrorsTokenMovement ==
    ReturnedTrade =>
        LET tx == processCall.tx
            r == processCall.result
            preAmount == tx.preTokenBalances[1].uiAmount
            postAmount == tx.postTokenBalances[1].uiAmount
            user == LargestChange(tx, 1, 0, 0)
            moved == Abs(tx.preBalances[user] - tx.postBalances[user])
            feeGain == IF tx.pumpFunFeeAccount = 0 THEN 0
                       ELSE tx.postBalances[tx.pumpFunFeeAccount]
                                - tx.preBalances[tx.pumpFunFeeAccount]
        IN /\ (r.type = "SELL") <=> (postAmount > preAmount)
           /\ (r.type = "BUY") <=> (postAmount < preAmount)
           /\ r.solAmount = IF postAmount > preAmount THEN moved - feeGain ELSE moved

\* the trader paid 1 SOL, of which 0.01 SOL went to the fee collector, and
\* holds more tokens: a SELL of 0.99 SOL
C25_Witness ==
    /\ ReturnedTrade
    /\ processCall.tx.pumpFunFeeAccount = SECOND_ACCOUNT
    /\ processCall.tx.postBalances = << 40000, 100 >>
    /\ processCall.result.type = "SELL"
    /\ processCall.result.solAmount = 9900

\* C26: a record returned by processTransaction has a SOL amount of at
\* least MIN_SOL_AMOUNT and a token amount above 0.
C26_AmountsPositive ==
    ReturnedTrade =>
        /\ processCall.result.solAmount >= MIN_SOL_AMOUNT
        /\ processCall.result.tokenAmount > 0

\* a record of exactly the minimum amount
C26_Witness ==
    /\ ReturnedTrade
    /\ processCall.result.solAmount = MIN_SOL_AMOUNT
    /\ processCall.result.tokenAmount > 0

\* C28: a trade leaves pendingTrades only when it is in the ledger after the
\* step.
C28_BufferKeptUntilWritten ==
    [][\A n \in 1..Len(pendingTrades) :
           pendingTrades[n] \notin Range(pendingTrades') => pendingTrades[n] \in Range(ledger')]_vars
====
